---- MODULE Spec2Model ----
(***************************************************************************)
(* Model of the update module's domain ledgers (stock movements, cash      *)
(* sessions, inventory reconciliation, sale voids) on top of the           *)
(* persistence manager (db_core get / safeSave).                           *)
(*                                                                         *)
(* Representation of JavaScript values:                                    *)
(*   - a string is a sequence of one-character strings, so that trim() is  *)
(*     a computed operation;                                               *)
(*   - a number is carried in halves (the number n is Num(2n)), so that    *)
(*     Math.trunc / asInt are computed operations on 1.5, -1.5, ...;       *)
(*   - undefined, null and NaN are tagged records.                         *)
(* Identifiers produced by generateId(prefix) are <<prefix, n>> with n     *)
(* fresh within the collection the identifier is stored in.                *)
(***************************************************************************)
EXTENDS Integers, Sequences, FiniteSets, TLC

VARIABLES
  store,   \* the database persisted under the canonical localStorage key
  inv,     \* ops_inventory.js: the in-memory inventory `state`
  last,    \* the operation called last and the fields of its result
  pm,      \* db_core.js / backup.js: recovery flag, snapshot list, snapshot clock, configuration
  mg,      \* the merge engines: the two databases handed to a merge and its result
  srv,     \* functions/api: the tenant records of the key-value store and the requests in flight
  px       \* a value handed to validate.js, schema.js or backup.js on its own, and the result

vars == <<store, inv, last, pm, mg, srv, px>>

(***************************************************************************)
(* Bounds                                                                  *)
(***************************************************************************)
MaxLedger == 2       \* ledger records (movements, sessions, voids) persisted
MaxInventories == 1  \* inventory sessions started
MaxStockMovs == 2    \* stock movements persisted, when the stock ledger runs alone
MaxCashRecords == 4  \* sessions and cash movements persisted, when the cashier runs alone
MaxNow == 6000       \* the latest clock reading, in ms, when the persistence manager runs alone
MaxSnapshotsMade == 2  \* snapshots created, when the persistence manager runs alone

(***************************************************************************)
(* JavaScript values                                                       *)
(***************************************************************************)
Undefined == [t |-> "undefined"]
Null == [t |-> "null"]
NaN == [t |-> "nan"]
Num(h) == [t |-> "number", h |-> h]
IntVal(n) == Num(2 * n)
Str(s) == [t |-> "string", s |-> s]

Digits == <<"0", "1", "2", "3", "4", "5", "6", "7", "8", "9">>

Abs(n) == IF n < 0 THEN -n ELSE n

\* Math.trunc of a number given in halves: the integer nearest to zero.
Trunc(h) == IF h >= 0 THEN h \div 2 ELSE -((-h) \div 2)

\* String.prototype.trim
RECURSIVE TrimLeft(_)
TrimLeft(s) == IF s # <<>> /\ Head(s) = " " THEN TrimLeft(Tail(s)) ELSE s

RECURSIVE TrimRight(_)
TrimRight(s) ==
  IF s # <<>> /\ s[Len(s)] = " " THEN TrimRight(SubSeq(s, 1, Len(s) - 1)) ELSE s

Trim(s) == TrimRight(TrimLeft(s))

\* decimal digits of a natural number
RECURSIVE NatChars(_)
NatChars(n) ==
  IF n < 10 THEN <<Digits[n + 1]>> ELSE NatChars(n \div 10) \o <<Digits[(n % 10) + 1]>>

\* String(x)
StringOf(x) ==
  CASE x.t = "string" -> x.s
    [] x.t = "number" ->
         (IF x.h < 0 THEN <<"-">> ELSE <<>>)
           \o NatChars(Abs(x.h) \div 2)
           \o (IF x.h % 2 = 0 THEN <<>> ELSE <<".", "5">>)
    [] x.t = "undefined" -> <<"u", "n", "d", "e", "f", "i", "n", "e", "d">>
    [] x.t = "null" -> <<"n", "u", "l", "l">>
    [] OTHER -> <<"N", "a", "N">>

\* the values for which `x || y` yields y
Falsy(x) ==
  \/ x.t \in {"undefined", "null", "nan"}
  \/ x.t = "number" /\ x.h = 0
  \/ x.t = "string" /\ x.s = <<>>
  \/ x.t = "boolean" /\ ~x.b

\* String(x || '').trim()
TrimmedString(x) == IF Falsy(x) THEN <<>> ELSE Trim(StringOf(x))

\* x === y
StrictEq(x, y) == x = y

DigitVal(c) == CHOOSE d \in 0..9 : Digits[d + 1] = c

IsDigit(c) == \E d \in 0..9 : Digits[d + 1] = c

RECURSIVE NatOf(_)
NatOf(s) == IF s = <<>> THEN 0 ELSE 10 * NatOf(SubSeq(s, 1, Len(s) - 1)) + DigitVal(s[Len(s)])

AllDigits(s) == \A i \in 1..Len(s) : IsDigit(s[i])

RECURSIVE RemoveDots(_)
RemoveDots(s) ==
  IF s = <<>> THEN <<>>
  ELSE IF Head(s) = "." THEN RemoveDots(Tail(s)) ELSE <<Head(s)>> \o RemoveDots(Tail(s))

\* position of the first ",", or one past the end
CommaAt(u) ==
  IF \E i \in 1..Len(u) : u[i] = ","
    THEN CHOOSE i \in 1..Len(u) : u[i] = "," /\ \A j \in 1..(i - 1) : u[j] # ","
    ELSE Len(u) + 1

\* the numeral with integer part ip and fraction fp, in halves rounded toward
\* zero (exact for fractions .0 and .5, and exact after Math.trunc for every
\* fraction); NaN when it is not a decimal numeral
ParseParts(neg, ip, fp) ==
  IF ~AllDigits(ip) \/ ~AllDigits(fp) \/ (ip = <<>> /\ fp = <<>>) THEN NaN
  ELSE Num((IF neg THEN -1 ELSE 1)
             * (2 * NatOf(ip) + (IF fp # <<>> /\ DigitVal(fp[1]) >= 5 THEN 1 ELSE 0)))

ParseUnsigned(neg, u, c) == ParseParts(neg, SubSeq(u, 1, c - 1), SubSeq(u, c + 1, Len(u)))

ParseSigned(neg, u) == ParseUnsigned(neg, u, CommaAt(u))

\* Number(text) after asNum's replacements: the first "," is the decimal separator
ParseNumber(s) ==
  IF s = <<>> THEN Num(0)
  ELSE IF Head(s) = "-" THEN ParseSigned(TRUE, Tail(s)) ELSE ParseSigned(FALSE, s)

NumberOr(n, dflt) == IF n.t = "number" THEN n.h ELSE dflt

\* validate.js asNum; dflt and the result are in halves
asNum(x, dflt) ==
  IF x.t = "number" THEN x.h
  ELSE IF x.t = "string" THEN NumberOr(ParseNumber(RemoveDots(Trim(x.s))), dflt)
  ELSE dflt

\* validate.js asInt; dflt and the result are integers
asInt(x, dflt) == Trunc(asNum(x, 2 * dflt))

\* utils/ids.js generateId: prefix plus a component fresh in its collection
generateId(prefix, n) == <<prefix, n>>

NoId == <<>>

(***************************************************************************)
(* storage/validate.js normalizeDB, storage/db_core.js get and safeSave    *)
(***************************************************************************)
\* `if (x < 0) x = 0`
NotNegative(n) == IF n < 0 THEN 0 ELSE n

normalizeProduct(p) ==
  [p EXCEPT !.cod = Trim(@), !.qtd = NotNegative(asInt(IntVal(@), 0))]

normalizeItem(it) == [it EXCEPT !.cod = Trim(@), !.qtd = asNum(Num(@), 0)]

\* `asStr(id).trim() || id`
TrimOr(s) == IF Trim(s) = <<>> THEN s ELSE Trim(s)

normalizeSale(v) ==
  [v EXCEPT
     !.id = TrimOr(@),
     !.itens = [k \in 1..Len(@) |-> normalizeItem(@[k])],
     !.total_c = NotNegative(asInt(IntVal(@), 0))]

normalizeDB(db) ==
  [db EXCEPT
     !.estoque = [i \in 1..Len(@) |-> normalizeProduct(@[i])],
     !.vendas = [i \in 1..Len(@) |-> normalizeSale(@[i])],
     !.caixa.aberto = (@ = TRUE)]

\* db_core.get(): parse the stored value and normalise it
get(s) == normalizeDB(s)

\* db_core.safeSave(db): the value written under the canonical key
safeSave(db) == normalizeDB(db)

(***************************************************************************)
(* services/ops_stock_events.js                                            *)
(***************************************************************************)
\* index of the first element of seq satisfying the test encoded in hits
FirstOf(hits) == IF hits = {} THEN 0 ELSE CHOOSE i \in hits : \A j \in hits : i <= j

\* index of the first product with that code, 0 when there is none
findProduct(db, productCod) ==
  FirstOf({i \in 1..Len(db.estoque) : Trim(db.estoque[i].cod) = TrimmedString(productCod)})

\* variant: a negative result is made positive instead of being set to zero
applyDeltaToProduct_abs(prod, qtyDelta) ==
  [prod EXCEPT !.qtd = Abs(asInt(IntVal(@), 0) + asInt(IntVal(qtyDelta), 0))]

applyDeltaToProduct(prod, qtyDelta) ==
  [prod EXCEPT !.qtd = NotNegative(asInt(IntVal(@), 0) + asInt(IntVal(qtyDelta), 0))]

\* the sign rule of addMovement
signedDelta(t, delta) ==
  IF t \in {"saida", "perda"} /\ delta > 0 THEN -delta
  ELSE IF t \in {"entrada", "devolucao"} /\ delta < 0 THEN -delta
  ELSE delta

\* variant: the movement is appended and saved before the product is looked up
addMovementAt_saveFirst(s, db, i, mv) ==
  IF i = 0
    THEN [ok |-> FALSE,
          store |-> safeSave([db EXCEPT !.stockMovements = Append(@, mv)]),
          movementId |-> NoId]
    ELSE [ok |-> TRUE,
          store |-> safeSave([db EXCEPT
                       !.estoque[i] = applyDeltaToProduct(@, mv.qtyDelta),
                       !.stockMovements = Append(@, mv)]),
          movementId |-> mv.id]

\* addMovement from the product lookup on: i is the product's index in
\* db.estoque (0: none), mv the movement record
addMovementAt(s, db, i, mv) ==
  IF i = 0
    THEN [ok |-> FALSE, store |-> s, movementId |-> NoId]
    ELSE [ok |-> TRUE,
          store |-> safeSave([db EXCEPT
                       !.estoque[i] = applyDeltaToProduct(@, mv.qtyDelta),
                       !.stockMovements = Append(@, mv)]),
          movementId |-> mv.id]

\* addMovement on the database db read from store s; t is the type in force
\* and delta0 the caller's delta as an integer
addMovementIn(s, db, t, productCod, delta0, meta) ==
  addMovementAt(s, db, findProduct(db, productCod),
                [id |-> generateId("sm", Len(db.stockMovements) + 1),
                 type |-> t,
                 productCod |-> TrimmedString(productCod),
                 qtyDelta |-> signedDelta(t, delta0),
                 meta |-> meta])

\* addMovement({type, productCod, qty, qtyDelta, meta}) called on store s.
\* type is "" when the caller passes none.
stockAddMovement(s, type, productCod, qty, qtyDelta, meta) ==
  addMovementIn(s, get(s),
                IF type = "" THEN "ajuste" ELSE type,
                productCod,
                IF qtyDelta # Undefined THEN asInt(qtyDelta, 0) ELSE asInt(qty, 0),
                meta)

(***************************************************************************)
(* The data found in the store when the ledgers start: one product and     *)
(* two sales.                                                              *)
(***************************************************************************)
CodX == <<"X">>
CodZ == <<"Z">>

InitialQtd == {0, 3}

Sale5 ==
  [id |-> <<"5">>,
   itens |-> <<[cod |-> CodX, qtd |-> 4], [cod |-> CodZ, qtd |-> 2], [cod |-> CodX, qtd |-> 2]>>,
   total_c |-> 2,
   status |-> "ativa"]

Sale7 ==
  [id |-> <<"7">>,
   itens |-> <<[cod |-> CodX, qtd |-> 0], [cod |-> CodX, qtd |-> 2]>>,
   total_c |-> 1,
   status |-> "ativa"]

RECURSIVE SumLens(_)
SumLens(ss) == IF ss = <<>> THEN 0 ELSE Len(Head(ss).movements) + SumLens(Tail(ss))

\* number of ledger records persisted
LedgerSize(s) ==
  Len(s.stockMovements) + Len(s.saleVoids) + Len(s.cashSessions) + SumLens(s.cashSessions)

(***************************************************************************)
(* services/ops_cashier.js                                                 *)
(***************************************************************************)
\* variant: the newest session, whatever the pointer says
currentSession_newest(db) == Len(db.cashSessions)

\* index of the session caixa.currentSessionId names, 0 when there is none
currentSession(db) ==
  IF db.caixa.currentSessionId = NoId THEN 0
  ELSE FirstOf({i \in 1..Len(db.cashSessions) :
                  db.cashSessions[i].id = db.caixa.currentSessionId})

\* the session record open() creates
newSession(id, initial) ==
  [id |-> id,
   closed |-> FALSE,
   initial_c |-> initial,
   expected_c |-> initial,
   counted_c |-> Null,
   diff_c |-> Null,
   movements |-> <<>>]

\* variant: open does not test caixa.aberto
cashOpenIn_unguarded(s, db, id, initial) ==
  [ok |-> TRUE,
   store |-> safeSave([db EXCEPT
                !.cashSessions = Append(@, newSession(id, initial)),
                !.caixa = [aberto |-> TRUE, currentSessionId |-> id]])]

\* open() on the database db read from store s
cashOpenIn(s, db, id, initial) ==
  IF db.caixa.aberto
    THEN [ok |-> FALSE, store |-> s]
    ELSE [ok |-> TRUE,
          store |-> safeSave([db EXCEPT
                       !.cashSessions = Append(@, newSession(id, initial)),
                       !.caixa = [aberto |-> TRUE, currentSessionId |-> id]])]

cashOpenId(s, db, initial_c) ==
  cashOpenIn(s, db, generateId("cs", Len(db.cashSessions) + 1), asInt(initial_c, 0))

\* open({initial_c})
cashOpen(s, initial_c) == cashOpenId(s, get(s), initial_c)

\* the cashier's addMovement from the session lookup on: i is the current
\* session's index (0: none), amount the movement's amount
cashAddMovementAt(s, db, i, type, amount, saleId) ==
  IF i = 0
    THEN [ok |-> FALSE, store |-> s]
    ELSE [ok |-> TRUE,
          store |-> safeSave([db EXCEPT
                       !.cashSessions[i].movements =
                          Append(@, [id |-> generateId("cm", Len(@) + 1),
                                     type |-> type,
                                     amount_c |-> amount,
                                     saleId |-> saleId]),
                       !.cashSessions[i].expected_c = asInt(IntVal(@), 0) + amount])]

cashAddMovementIn(s, db, type, amount, saleId) ==
  cashAddMovementAt(s, db, currentSession(db), type, amount, saleId)

\* the internal addMovement(type, amount_c, meta) of the cashier
cashAddMovement(s, type, amount_c, saleId) ==
  cashAddMovementIn(s, get(s), type, asInt(IntVal(amount_c), 0), saleId)

addSale(s, saleId, amount_c) == cashAddMovement(s, "venda", Abs(asInt(amount_c, 0)), saleId)

addVoid(s, saleId, amount_c) == cashAddMovement(s, "estorno", -Abs(asInt(amount_c, 0)), saleId)

\* variant: the withdrawal keeps the caller's sign
withdraw_callerSign(s, amount_c) == cashAddMovement(s, "sangria", asInt(amount_c, 0), Undefined)

withdraw(s, amount_c) == cashAddMovement(s, "sangria", -Abs(asInt(amount_c, 0)), Undefined)

reinforce(s, amount_c) == cashAddMovement(s, "reforco", Abs(asInt(amount_c, 0)), Undefined)

\* variant: the difference is taken the other way round
cashCloseAt_reversedDiff(s, db, i, counted) ==
  IF i = 0
    THEN [ok |-> FALSE, store |-> s]
    ELSE [ok |-> TRUE,
          store |-> safeSave([db EXCEPT
                       !.cashSessions[i].closed = TRUE,
                       !.cashSessions[i].counted_c = IntVal(counted),
                       !.cashSessions[i].diff_c =
                          IntVal(asInt(IntVal(db.cashSessions[i].expected_c), 0)
                                   - asInt(IntVal(counted), 0)),
                       !.caixa = [aberto |-> FALSE, currentSessionId |-> NoId]])]

\* close() from the session lookup on: i is the current session's index
\* (0: none), counted the counted amount as an integer
cashCloseAt(s, db, i, counted) ==
  IF i = 0
    THEN [ok |-> FALSE, store |-> s]
    ELSE [ok |-> TRUE,
          store |-> safeSave([db EXCEPT
                       !.cashSessions[i].closed = TRUE,
                       !.cashSessions[i].counted_c = IntVal(counted),
                       !.cashSessions[i].diff_c =
                          IntVal(asInt(IntVal(counted), 0)
                                   - asInt(IntVal(db.cashSessions[i].expected_c), 0)),
                       !.caixa = [aberto |-> FALSE, currentSessionId |-> NoId]])]

cashCloseIn(s, db, counted_c) == cashCloseAt(s, db, currentSession(db), asInt(counted_c, 0))

\* close({counted_c})
cashClose(s, counted_c) == cashCloseIn(s, get(s), counted_c)

(***************************************************************************)
(* services/ops_sales_refund.js                                            *)
(***************************************************************************)
\* index of the first sale with that id, 0 when there is none
findSale(db, saleId) ==
  FirstOf({i \in 1..Len(db.vendas) : Trim(db.vendas[i].id) = TrimmedString(saleId)})

\* `db.saleVoids.find((x) => x && x.saleId === saleId)`
alreadyVoided(db, saleId) ==
  \E k \in 1..Len(db.saleVoids) : StrictEq(Str(db.saleVoids[k].saleId), saleId)

\* the restock loop of cancelSale over the sale's lines, from line k on:
\* every addMovement reads and saves the store on its own
RECURSIVE restockLoop(_, _, _, _, _, _)
RECURSIVE restockNext(_, _, _, _, _, _)
restockNext(r, itens, k, saleId, voidId, createdMovs) ==
  restockLoop(r.store, itens, k + 1, saleId, voidId,
              IF r.ok THEN Append(createdMovs, r.movementId) ELSE createdMovs)

restockLoop(s, itens, k, saleId, voidId, createdMovs) ==
  IF k > Len(itens) THEN [store |-> s, createdMovs |-> createdMovs]
  ELSE IF Trim(itens[k].cod) = <<>> \/ itens[k].qtd <= 0
    THEN restockLoop(s, itens, k + 1, saleId, voidId, createdMovs)
    ELSE restockNext(stockAddMovement(s, "devolucao", Str(Trim(itens[k].cod)), Undefined,
                                      IntVal(Trunc(itens[k].qtd)),
                                      [kind |-> "sale", saleId |-> saleId, voidId |-> voidId]),
                     itens, k, saleId, voidId, createdMovs)

\* the end of cancelSale: the void entry and the status are set on db, the
\* object read at entry; cashed is the result of cashOps.addVoid, which read
\* and saved the store itself; the closing safeSave(db) writes db
cancelSaleEnd(db, i, entry, cashed) ==
  [ok |-> TRUE,
   store |-> safeSave([db EXCEPT
                !.saleVoids = Append(@, entry),
                !.vendas[i].status = "cancelada"]),
   error |-> ""]

\* cancelSale after the restock loop, whose result is stocked
cancelSaleCash(db, i, saleId, voidId, stocked) ==
  cancelSaleEnd(db, i,
                [id |-> voidId,
                 saleId |-> StringOf(saleId),
                 stockMovementsCreated |-> stocked.createdMovs],
                addVoid(stocked.store, saleId,
                        IntVal(-Abs(asInt(IntVal(db.vendas[i].total_c), 0)))))

\* cancelSale from the sale lookup on: i is the sale's index (0: none)
cancelSaleAt(s, db, i, saleId, restock, voidId) ==
  IF i = 0 THEN [ok |-> FALSE, store |-> s, error |-> "not found"]
  ELSE IF alreadyVoided(db, saleId) THEN [ok |-> FALSE, store |-> s, error |-> "already voided"]
  ELSE cancelSaleCash(db, i, saleId, voidId,
                      IF restock
                        THEN restockLoop(s, db.vendas[i].itens, 1, saleId, voidId, <<>>)
                        ELSE [store |-> s, createdMovs |-> <<>>])

cancelSaleIn(s, db, saleId, restock) ==
  cancelSaleAt(s, db, findSale(db, saleId), saleId, restock,
               generateId("void", Len(db.saleVoids) + 1))

\* cancelSale({saleId, restock}).  db is the object read at entry; the stock
\* and cash modules read and save the store themselves.
cancelSale(s, saleId, restock) == cancelSaleIn(s, get(s), saleId, restock)

(***************************************************************************)
(* services/ops_inventory.js                                               *)
(***************************************************************************)
RECURSIVE SelectSeq2(_, _)
SelectSeq2(seq, codes) ==
  IF seq = <<>> THEN <<>>
  ELSE (IF Head(seq).cod \in codes THEN <<Head(seq)>> ELSE <<>>) \o SelectSeq2(Tail(seq), codes)

\* the items start() builds from the listed products
inventoryItems(list) ==
  [k \in 1..Len(list) |->
     [productCod |-> Trim(list[k].cod),
      systemQty |-> asInt(IntVal(list[k].qtd), 0),
      countedQty |-> Null]]

inventoryStartIn(db, st, productCods) ==
  [active |-> TRUE,
   id |-> generateId("inv", st.started + 1),
   items |-> inventoryItems(IF productCods # Null /\ productCods.codes # {}
                              THEN SelectSeq2(db.estoque, productCods.codes)
                              ELSE db.estoque),
   started |-> st.started + 1]

\* start({productCods}): productCods is Null or a set of code strings
inventoryStart(s, st, productCods) == inventoryStartIn(get(s), st, productCods)

itemIndex(st, code) == FirstOf({k \in 1..Len(st.items) : st.items[k].productCod = code})

setCountAt(st, k, countedQty) ==
  IF ~st.active THEN [ok |-> FALSE, state |-> st]
  ELSE IF k = 0 THEN [ok |-> FALSE, state |-> st]
  ELSE [ok |-> TRUE,
        state |-> [st EXCEPT !.items[k].countedQty = IntVal(asInt(countedQty, 0))]]

\* setCount(productCod, countedQty)
setCount(st, productCod, countedQty) ==
  setCountAt(st, itemIndex(st, TrimmedString(productCod)), countedQty)

itemDiff(it) == asInt(it.countedQty, 0) - asInt(IntVal(it.systemQty), 0)

\* computeDiffs(): the counted items whose diff is not zero, in order
RECURSIVE computeDiffs(_)
computeDiffs(items) ==
  IF items = <<>> THEN <<>>
  ELSE (IF Head(items).countedQty # Null /\ itemDiff(Head(items)) # 0
          THEN <<[productCod |-> Head(items).productCod, diff |-> itemDiff(Head(items))]>>
          ELSE <<>>)
       \o computeDiffs(Tail(items))

\* `{ inventoryId: state.id, ...meta }`: the caller's meta is Null or an
\* object; its properties are copied over the inventory id
spreadMeta(inventoryId, meta) ==
  [kind |-> "inventory",
   f |-> IF meta = Null THEN [inventoryId |-> inventoryId]
         ELSE [k \in {"inventoryId"} \cup DOMAIN meta.f |->
                 IF k \in DOMAIN meta.f THEN meta.f[k] ELSE inventoryId]]

\* one addMovement of applyAdjustments
adjustment(s, d, meta) ==
  stockAddMovement(s, "ajuste", Str(d.productCod), Undefined, IntVal(d.diff), meta)

\* `diffs.forEach(...)`: the store after the adjustments from the k-th on
RECURSIVE adjustLoop(_, _, _, _)
adjustLoop(s, diffs, k, meta) ==
  IF k > Len(diffs) THEN s
  ELSE adjustLoop(adjustment(s, diffs[k], meta).store, diffs, k + 1, meta)

\* applyAdjustments({meta})
applyAdjustments(s, st, meta) ==
  IF ~st.active THEN [ok |-> FALSE, store |-> s, state |-> st]
  ELSE [ok |-> TRUE,
        store |-> adjustLoop(s, computeDiffs(st.items), 1, spreadMeta(st.id, meta)),
        state |-> [st EXCEPT !.active = FALSE, !.id = NoId, !.items = <<>>]]

(***************************************************************************)
(* storage/db_core.js and storage/backup.js: the persistence manager.     *)
(* The value under the canonical key is a database or a text that is not   *)
(* one; a database survives JSON.stringify / JSON.parse unchanged.         *)
(***************************************************************************)
Absent == [raw |-> "absent"]        \* getItem returns null
EmptyText == [raw |-> "empty"]      \* the empty string
CorruptText == [raw |-> "corrupt"]  \* a non-empty text JSON.parse rejects

\* `!raw`
NoRaw(v) == v \in {Absent, EmptyText}

cooldownMs == 3000

defaultMaxSnapshots == 20

\* schema.defaultDB(), with the collections the ledgers attach on first use
defaultDB ==
  [estoque |-> <<>>,
   vendas |-> <<>>,
   stockMovements |-> <<>>,
   saleVoids |-> <<>>,
   cashSessions |-> <<>>,
   caixa |-> [aberto |-> FALSE, currentSessionId |-> NoId]]

\* the module state of db_core.js when it is loaded, with an empty snapshot
\* list in localStorage; Date.now() is at least cooldownMs past the epoch
PmLoaded ==
  [recovery |-> [active |-> FALSE, reason |-> ""],
   snapshots |-> <<>>,
   snapSeq |-> 0,
   lastSnapshotAt |-> 0,
   maxSnapshots |-> defaultMaxSnapshots,
   tmp |-> FALSE,
   now |-> cooldownMs]

\* setRecovery(true, reason)
setRecovery(p, reason) == [p EXCEPT !.recovery = [active |-> TRUE, reason |-> reason]]

\* variant: the newest snapshots are the ones dropped
popTo_newest(snaps, maxSnapshots) ==
  IF Len(snaps) > maxSnapshots
    THEN SubSeq(snaps, Len(snaps) - maxSnapshots + 1, Len(snaps))
    ELSE snaps

\* `while (snaps.length > maxSnapshots) snaps.pop()`
RECURSIVE popTo(_, _)
popTo(snaps, maxSnapshots) ==
  IF Len(snaps) > maxSnapshots
    THEN popTo(SubSeq(snaps, 1, Len(snaps) - 1), maxSnapshots)
    ELSE snaps

\* backup.createSnapshot(storageKey, db, {maxSnapshots})
createSnapshot(p, db, maxSnapshots) ==
  [p EXCEPT
     !.snapshots = popTo(<<[id |-> generateId("snap", p.snapSeq + 1),
                            at |-> p.now,
                            data |-> db]>> \o @,
                         maxSnapshots),
     !.snapSeq = @ + 1]

\* the catch branch of safeSave
saveFailed(s, p) ==
  [ok |-> FALSE, snapshotCreated |-> FALSE, store |-> s, pm |-> setRecovery(p, "storage_error")]

\* variant: the cooldown is measured from the last save, not the last snapshot
saveSnapshot_everySave(fixed, p, due, fault) ==
  IF due /\ fault = "snapshot" THEN saveFailed(fixed, p)
  ELSE IF due
    THEN [ok |-> TRUE, snapshotCreated |-> TRUE, store |-> fixed,
          pm |-> [createSnapshot(p, fixed, p.maxSnapshots) EXCEPT !.lastSnapshotAt = p.now]]
    ELSE [ok |-> TRUE, snapshotCreated |-> FALSE, store |-> fixed,
          pm |-> [p EXCEPT !.lastSnapshotAt = p.now]]

\* safeSave after the two storage writes: fixed is under the canonical key,
\* the temporary key is removed, the snapshot is created when due
saveSnapshot(fixed, p, due, fault) ==
  IF due /\ fault = "snapshot" THEN saveFailed(fixed, p)
  ELSE IF due
    THEN [ok |-> TRUE, snapshotCreated |-> TRUE, store |-> fixed,
          pm |-> [createSnapshot(p, fixed, p.maxSnapshots) EXCEPT !.lastSnapshotAt = p.now]]
    ELSE [ok |-> TRUE, snapshotCreated |-> FALSE, store |-> fixed, pm |-> p]

snapshotDue(p, forceSnapshot) == forceSnapshot \/ p.now - p.lastSnapshotAt >= cooldownMs

\* variant: a failure of the write of the canonical key goes unreported
dbSafeSave_keyUnreported(s, p, db, forceSnapshot, skipNormalize, fault) ==
  IF fault = "normalize" /\ ~skipNormalize THEN saveFailed(s, p)
  ELSE IF fault = "tmp" THEN saveFailed(s, p)
  ELSE IF fault = "key"
    THEN [ok |-> TRUE, snapshotCreated |-> FALSE, store |-> s, pm |-> [p EXCEPT !.tmp = TRUE]]
  ELSE saveSnapshot(IF skipNormalize THEN db ELSE normalizeDB(db),
                    [p EXCEPT !.tmp = FALSE],
                    snapshotDue(p, forceSnapshot), fault)

\* variant: a save that succeeds ends recovery mode
dbSafeSave_ends(s, p, db, forceSnapshot, skipNormalize, fault) ==
  IF fault = "normalize" /\ ~skipNormalize THEN saveFailed(s, p)
  ELSE IF fault = "tmp" THEN saveFailed(s, p)
  ELSE IF fault = "key" THEN saveFailed(s, [p EXCEPT !.tmp = TRUE])
  ELSE saveSnapshot(IF skipNormalize THEN db ELSE normalizeDB(db),
                    [p EXCEPT !.tmp = FALSE, !.recovery = [active |-> FALSE, reason |-> ""]],
                    snapshotDue(p, forceSnapshot), fault)

\* db_core.safeSave(db, {forceSnapshot, skipNormalize}) on stored value s.
\* fault names the step that throws: "normalize", "tmp" (the write of the
\* temporary key), "key" (the write of the canonical key), "snapshot" (the
\* write of the snapshot list), or "none".
dbSafeSave(s, p, db, forceSnapshot, skipNormalize, fault) ==
  IF fault = "normalize" /\ ~skipNormalize THEN saveFailed(s, p)
  ELSE IF fault = "tmp" THEN saveFailed(s, p)
  ELSE IF fault = "key" THEN saveFailed(s, [p EXCEPT !.tmp = TRUE])
  ELSE saveSnapshot(IF skipNormalize THEN db ELSE normalizeDB(db),
                    [p EXCEPT !.tmp = FALSE],
                    snapshotDue(p, forceSnapshot), fault)

\* the result of get(): the database returned and what the call left behind
gotten(db, saved) == [db |-> db, store |-> saved.store, pm |-> saved.pm]

\* variant: the recovery save of get() is not forced
dbGet_unforced(s, p, fault) ==
  IF NoRaw(s) THEN [db |-> defaultDB, store |-> s, pm |-> p]
  ELSE IF s = CorruptText
    THEN gotten(defaultDB,
                dbSafeSave(s, setRecovery(p, "db_corrompido_json"), defaultDB, FALSE, TRUE, fault))
  ELSE [db |-> normalizeDB(s), store |-> s, pm |-> p]

\* db_core.get() on stored value s; fault is the fault met by the recovery save
dbGet(s, p, fault) ==
  IF NoRaw(s) THEN [db |-> defaultDB, store |-> s, pm |-> p]
  ELSE IF s = CorruptText
    THEN gotten(defaultDB,
                dbSafeSave(s, setRecovery(p, "db_corrompido_json"), defaultDB, TRUE, TRUE, fault))
  ELSE [db |-> normalizeDB(s), store |-> s, pm |-> p]

\* normalizeDB reports a warning: a negative quantity or total was corrected
normalizeWarns(db) ==
  \/ \E i \in 1..Len(db.estoque) : asInt(IntVal(db.estoque[i].qtd), 0) < 0
  \/ \E i \in 1..Len(db.vendas) : asInt(IntVal(db.vendas[i].total_c), 0) < 0

\* the result of init(): the repaired flag and what the call left behind
inited(repaired, saved) == [repaired |-> repaired, store |-> saved.store, pm |-> saved.pm]

\* init() once the configuration is merged into _cfg
dbInitCfg(s, p, fault) ==
  IF s = CorruptText
    THEN inited(TRUE, dbSafeSave(s, setRecovery(p, "db_corrompido_json"), defaultDB,
                                 TRUE, FALSE, fault))
  ELSE IF NoRaw(s)
    THEN inited(FALSE, dbSafeSave(s, p, defaultDB, FALSE, FALSE, fault))
  ELSE inited(normalizeWarns(s), dbSafeSave(s, p, normalizeDB(s), FALSE, TRUE, fault))

\* db_core.init({backup}): backupCfg is Undefined or a record with maxSnapshots
dbInit(s, p, backupCfg, fault) ==
  dbInitCfg(s,
            IF backupCfg = Undefined THEN p
            ELSE [p EXCEPT !.maxSnapshots = backupCfg.maxSnapshots],
            fault)

\* the key init() and getStorageKey() name
CanonicalKey == [t |-> "string", key |-> 0]

\* a snapshot identifier as a JavaScript string
IdString(id) == [t |-> "string", id |-> id]

\* loadSnapshots(storageKey)
loadSnapshots(p, storageKey) == IF storageKey = CanonicalKey THEN p.snapshots ELSE <<>>

\* restoreSnapshot once the snapshot is looked up: k is its index in snaps (0: none).
\* The result of the save is not looked at.
restoreSnapshotAt(s, p, snaps, k, fault) ==
  IF k = 0 THEN [ok |-> FALSE, store |-> s, pm |-> p]
  ELSE [dbSafeSave(s, p, normalizeDB(snaps[k].data), FALSE, FALSE, fault) EXCEPT !.ok = TRUE]

restoreSnapshotIn(s, p, snaps, id, fault) ==
  restoreSnapshotAt(s, p, snaps, FirstOf({k \in 1..Len(snaps) : StrictEq(IdString(snaps[k].id), id)}), fault)

\* backup.restoreSnapshot(storageKey = getStorageKey(), id) called with the
\* positional arguments args
restoreSnapshot(s, p, args, fault) ==
  restoreSnapshotIn(s, p,
                    loadSnapshots(p, IF Len(args) >= 1 /\ args[1] # Undefined
                                       THEN args[1] ELSE CanonicalKey),
                    IF Len(args) >= 2 THEN args[2] ELSE Undefined,
                    fault)

(***************************************************************************)
(* integrations/server_sync.js: the merge engine.  A parsed JSON value is  *)
(* a number, a string, null, a plain object (a function from its keys) or  *)
(* an array (a sequence).  deepClone is the identity on such values.       *)
(***************************************************************************)
Obj(f) == [t |-> "object", f |-> f]
Arr(a) == [t |-> "array", a |-> a]

\* a stock item as a parsed JSON value
Item(cod, qtd) == Obj([cod |-> Str(cod), qtd |-> IntVal(qtd)])

\* the keys the databases handed to a merge use, in the order they are inserted
KeyOrder ==
  <<"id", "cod", "codigo", "cpf", "nome", "qtd", "valor", "estoque", "devedores", "loja",
    "settings", "tema", "moeda", "meta", "updatedAt">>

\* Object.keys(o)
KeysOf(f) == SelectSeq(KeyOrder, LAMBDA k : k \in DOMAIN f)

isPlainObject(v) == v.t = "object"

isArray(v) == v.t = "array"

\* `Array.isArray(v) ? v : []`
ArrayOr(v) == IF isArray(v) THEN v.a ELSE <<>>

\* `isPlainObject(v) ? v : {}`
ObjectOr(v) == IF isPlainObject(v) THEN v ELSE Obj(<<>>)

\* o[k] = v
Put(f, k, v) == [x \in (DOMAIN f) \cup {k} |-> IF x = k THEN v ELSE f[x]]

\* `a ?? b ?? ...` over the fields named by keys: the first that is neither
\* missing nor null, Undefined when there is none
RECURSIVE FirstField(_, _)
FirstField(f, keys) ==
  IF keys = <<>> THEN Undefined
  ELSE IF Head(keys) \in DOMAIN f /\ f[Head(keys)] # Null THEN f[Head(keys)]
  ELSE FirstField(f, Tail(keys))

\* the key uniqById files an element under: String(id) for a truthy id,
\* else the element's JSON text
uniqKeyOf(it, id) == IF Falsy(id) THEN [json |-> it] ELSE [id |-> StringOf(id)]

uniqKey(it) ==
  uniqKeyOf(it, IF isPlainObject(it) THEN FirstField(it.f, <<"id", "_id", "uuid">>)
                ELSE Undefined)

\* uniqById(arr), from element k on; seen holds the keys met so far
RECURSIVE uniqFrom(_, _, _, _)
uniqFrom(arr, k, seen, out) ==
  IF k > Len(arr) THEN out
  ELSE IF uniqKey(arr[k]) \in seen THEN uniqFrom(arr, k + 1, seen, out)
  ELSE uniqFrom(arr, k + 1, seen \cup {uniqKey(arr[k])}, Append(out, arr[k]))

uniqById(arr) == uniqFrom(arr, 1, {}, <<>>)

\* a conflict path: `k` at top level, `obj:<k>.<sub>...` inside a top-level
\* object, `estoque:<cod>.<field>` inside a stock item
topPath(k) == [scope |-> [top |-> TRUE], keys |-> <<k>>]

objPath(k) == [scope |-> [obj |-> TRUE], keys |-> <<k>>]

estoquePath(cod) == [scope |-> [estoque |-> cod], keys |-> <<>>]

\* `${prefix}.${k}`
pathIn(prefix, k) == [prefix EXCEPT !.keys = Append(@, k)]

\* one entry of report.conflicts
conflictEntry(path, va, vb, prefer) ==
  [path |-> path, current |-> va, incoming |-> vb,
   chosen |-> IF prefer = "import" THEN "incoming" ELSE "current"]

\* mergeObjects(a, b, prefer, report, prefix): the merged object and the
\* conflicts pushed onto the report, in order
RECURSIVE mergeObjects(_, _, _, _)
RECURSIVE mergeFields(_, _, _, _, _, _)
RECURSIVE mergeField(_, _, _, _, _, _, _)
RECURSIVE mergeNested(_, _, _, _, _, _, _, _)
mergeNested(out, b, k, rest, prefer, prefix, conflicts, m) ==
  mergeFields(Put(out, k, m.out), b, rest, prefer, prefix, conflicts \o m.conflicts)

\* variant: the current value is kept whatever prefer says
mergeField_keepCurrent(out, b, k, rest, prefer, prefix, conflicts) ==
  IF k \notin DOMAIN out THEN mergeFields(Put(out, k, b[k]), b, rest, prefer, prefix, conflicts)
  ELSE IF isArray(out[k]) \/ isArray(b[k])
    THEN mergeFields(Put(out, k, Arr(uniqById(ArrayOr(out[k]) \o ArrayOr(b[k])))),
                     b, rest, prefer, prefix, conflicts)
  ELSE IF isPlainObject(out[k]) \/ isPlainObject(b[k])
    THEN mergeNested(out, b, k, rest, prefer, prefix, conflicts,
                     mergeObjects(ObjectOr(out[k]), ObjectOr(b[k]), prefer, pathIn(prefix, k)))
  ELSE IF out[k] # b[k]
    THEN mergeFields(out, b, rest, prefer, prefix,
                     Append(conflicts, conflictEntry(pathIn(prefix, k), out[k], b[k], prefer)))
  ELSE mergeFields(out, b, rest, prefer, prefix, conflicts)

\* the body of the loop of mergeObjects for key k of b
mergeField(out, b, k, rest, prefer, prefix, conflicts) ==
  IF k \notin DOMAIN out THEN mergeFields(Put(out, k, b[k]), b, rest, prefer, prefix, conflicts)
  ELSE IF isArray(out[k]) \/ isArray(b[k])
    THEN mergeFields(Put(out, k, Arr(uniqById(ArrayOr(out[k]) \o ArrayOr(b[k])))),
                     b, rest, prefer, prefix, conflicts)
  ELSE IF isPlainObject(out[k]) \/ isPlainObject(b[k])
    THEN mergeNested(out, b, k, rest, prefer, prefix, conflicts,
                     mergeObjects(ObjectOr(out[k]), ObjectOr(b[k]), prefer, pathIn(prefix, k)))
  ELSE IF out[k] # b[k]
    THEN mergeFields(IF prefer = "import" THEN Put(out, k, b[k]) ELSE out,
                     b, rest, prefer, prefix,
                     Append(conflicts, conflictEntry(pathIn(prefix, k), out[k], b[k], prefer)))
  ELSE mergeFields(out, b, rest, prefer, prefix, conflicts)

mergeFields(out, b, keys, prefer, prefix, conflicts) ==
  IF keys = <<>> THEN [out |-> Obj(out), conflicts |-> conflicts]
  ELSE mergeField(out, b, Head(keys), Tail(keys), prefer, prefix, conflicts)

mergeObjects(a, b, prefer, prefix) == mergeFields(a.f, b.f, KeysOf(b.f), prefer, prefix, <<>>)

\* the longest prefix of decimal digits
RECURSIVE DigitPrefix(_)
DigitPrefix(s) ==
  IF s # <<>> /\ IsDigit(Head(s)) THEN <<Head(s)>> \o DigitPrefix(Tail(s)) ELSE <<>>

\* Number.parseInt(text, 10) of a text without leading blanks, def when it is NaN
parseDigits(neg, digits, def) ==
  IF digits = <<>> THEN def ELSE IF neg THEN -NatOf(digits) ELSE NatOf(digits)

parseIntText(s, def) ==
  IF s # <<>> /\ Head(s) \in {"-", "+"} THEN parseDigits(Head(s) = "-", DigitPrefix(Tail(s)), def)
  ELSE parseDigits(FALSE, DigitPrefix(s), def)

\* server_sync.js asInt(v, def): parseInt of String(v)
parseIntOr(v, def) ==
  IF v.t = "number" THEN Trunc(v.h)
  ELSE IF v.t = "string" THEN parseIntText(TrimLeft(v.s), def)
  ELSE def

\* normalizeCode(code)
normalizeCode(code) == IF code \in {Undefined, Null} THEN <<>> ELSE Trim(StringOf(code))

\* the fields of `norm(it)`; arrays and primitives have none
fieldsOf(it) == IF isPlainObject(it) THEN it.f ELSE <<>>

\* utils/merge.js pickFirst over the fields named by keys: the first that is
\* not undefined, Undefined when there is none
RECURSIVE pickFirst(_, _)
pickFirst(f, keys) ==
  IF keys = <<>> THEN Undefined
  ELSE IF Head(keys) \in DOMAIN f THEN f[Head(keys)]
  ELSE pickFirst(f, Tail(keys))

UpperCase ==
  <<"A", "B", "C", "D", "E", "F", "G", "H", "I", "J", "K", "L", "M",
    "N", "O", "P", "Q", "R", "S", "T", "U", "V", "W", "X", "Y", "Z">>

LowerCase ==
  <<"a", "b", "c", "d", "e", "f", "g", "h", "i", "j", "k", "l", "m",
    "n", "o", "p", "q", "r", "s", "t", "u", "v", "w", "x", "y", "z">>

toLowerCase(s) ==
  [k \in 1..Len(s) |->
     IF \E n \in 1..Len(UpperCase) : UpperCase[n] = s[k]
       THEN LowerCase[CHOOSE n \in 1..Len(UpperCase) : UpperCase[n] = s[k]]
     ELSE s[k]]

\* utils/merge.js normStr
normStr(v) == IF v \in {Undefined, Null} THEN <<>> ELSE toLowerCase(Trim(StringOf(v)))

\* .replace(/\D+/g, '')
digitsOnly(s) == SelectSeq(s, IsDigit)

\* the probes of fingerprint after the id; Undefined stands for ''
probeName(nome) == IF Falsy(nome) THEN Undefined ELSE [nome |-> normStr(nome)]

probeTel(f, tel) ==
  IF Falsy(tel) THEN probeName(pickFirst(f, <<"nome", "name", "cliente", "produto", "descricao">>))
  ELSE [tel |-> digitsOnly(normStr(tel))]

probeEmail(f, email) ==
  IF Falsy(email) THEN probeTel(f, pickFirst(f, <<"telefone", "fone", "celular", "whatsapp">>))
  ELSE [email |-> normStr(email)]

probeDoc(f, cpfCnpj) ==
  IF Falsy(cpfCnpj) THEN probeEmail(f, pickFirst(f, <<"email">>))
  ELSE [doc |-> digitsOnly(normStr(cpfCnpj))]

probeCodigo(f, codigo) ==
  IF Falsy(codigo) THEN probeDoc(f, pickFirst(f, <<"cpf", "cnpj", "cpfCnpj", "documento">>))
  ELSE [codigo |-> normStr(codigo)]

probeId(f, id) ==
  IF Falsy(id) THEN probeCodigo(f, pickFirst(f, <<"codigo", "code", "cod", "sku">>))
  ELSE [id |-> StringOf(id)]

\* utils/merge.js fingerprint(obj)
fingerprint(obj) ==
  IF obj.t \notin {"object", "array"} THEN Undefined
  ELSE probeId(fieldsOf(obj), pickFirst(fieldsOf(obj), <<"id", "_id", "uuid">>))

\* normalizeCode(o.cod ?? o.codigo ?? o.code ?? o.sku)
codeOf(it) == normalizeCode(FirstField(fieldsOf(it), <<"cod", "codigo", "code", "sku">>))

\* asInt(o.qtd ?? o.quantidade ?? 0, 0)
qtdOr(v) == parseIntOr(IF v = Undefined THEN IntVal(0) ELSE v, 0)

qtdOf(f) == qtdOr(FirstField(f, <<"qtd", "quantidade">>))

\* the Map of mergeEstoque: entries [cod, item] in insertion order
mapIndex(map, cod) == FirstOf({k \in 1..Len(map) : map[k].cod = cod})

mapHas(map, cod) == \E k \in 1..Len(map) : map[k].cod = cod

mapSet(map, cod, item) ==
  IF mapHas(map, cod) THEN [map EXCEPT ![mapIndex(map, cod)].item = item]
  ELSE Append(map, [cod |-> cod, item |-> item])

mapGet(map, cod) == map[mapIndex(map, cod)].item

\* report.added[k] = (report.added[k] || 0) + 1
Count(f, k) == IF k \in DOMAIN f THEN f[k] ELSE 0

Bump(f, k) == Put(f, k, Count(f, k) + 1)

newReport == [added |-> <<>>, updated |-> <<>>, conflicts |-> <<>>, warnings |-> <<>>]

\* "load current first": items with no code are skipped
RECURSIVE loadCurrent(_, _, _)
loadCurrent(arrA, k, map) ==
  IF k > Len(arrA) THEN map
  ELSE IF codeOf(arrA[k]) = <<>> THEN loadCurrent(arrA, k + 1, map)
  ELSE loadCurrent(arrA, k + 1, mapSet(map, codeOf(arrA[k]), arrA[k]))

\* variant: without sumStockQty the current quantity is kept whatever prefer says
mergedQtd_current(sumStockQty, prefer, curQtd, incQtd) ==
  IF sumStockQty THEN curQtd + incQtd ELSE curQtd

\* the quantity strategy
mergedQtd(sumStockQty, prefer, curQtd, incQtd) ==
  IF sumStockQty THEN curQtd + incQtd ELSE IF prefer = "import" THEN incQtd ELSE curQtd

\* an incoming item whose code the map already holds
RECURSIVE mergeIncoming(_, _, _, _, _, _)
collide(arrB, k, map, sumStockQty, prefer, report, cod, cur, m) ==
  mergeIncoming(arrB, k + 1,
                mapSet(map, cod,
                       Obj(Put(m.out.f, "qtd",
                               IntVal(mergedQtd(sumStockQty, prefer, qtdOf(cur.f),
                                                qtdOf(arrB[k].f)))))),
                sumStockQty, prefer,
                [report EXCEPT !.conflicts = @ \o m.conflicts, !.updated = Bump(@, "estoque")])

incomingItem(arrB, k, map, sumStockQty, prefer, report, cod) ==
  IF cod = <<>>
    THEN mergeIncoming(arrB, k + 1, map, sumStockQty, prefer,
                       [report EXCEPT !.warnings = Append(@, "Item importado no estoque sem codigo (cod). Ignorado.")])
  ELSE IF ~mapHas(map, cod)
    THEN mergeIncoming(arrB, k + 1,
                       mapSet(map, cod, Obj(Put(arrB[k].f, "cod", Str(cod)))),
                       sumStockQty, prefer, [report EXCEPT !.added = Bump(@, "estoque")])
  ELSE collide(arrB, k, map, sumStockQty, prefer, report, cod, mapGet(map, cod),
               mergeObjects(mapGet(map, cod), arrB[k], prefer, estoquePath(cod)))

mergeIncoming(arrB, k, map, sumStockQty, prefer, report) ==
  IF k > Len(arrB) THEN [map |-> map, report |-> report]
  ELSE incomingItem(arrB, k, map, sumStockQty, prefer, report, codeOf(arrB[k]))

\* mergeEstoque(arrA, arrB, {sumStockQty, prefer, report}): [map, report]
mergeEstoque(arrA, arrB, sumStockQty, prefer, report) ==
  mergeIncoming(arrB, 1, loadCurrent(arrA, 1, <<>>), sumStockQty, prefer, report)

\* Array.from(map.values())
mapValues(map) == [k \in 1..Len(map) |-> map[k].item]

\* nowIso() at the time of the merge: later than every stamp in the inputs
NowIso == Str(<<"T", "9">>)

\* `if (isPlainObject(out.meta)) out.meta.updatedAt = nowIso()`
stamp(out, k, field) ==
  IF k \in DOMAIN out /\ isPlainObject(out[k])
    THEN Put(out, k, Obj(Put(out[k].f, field, NowIso)))
  ELSE out

stampAll(out) == stamp(stamp(out, "meta", "updatedAt"), "_meta", "savedAt")

\* the loop of mergeDBSmart over the keys of the incoming database
RECURSIVE topFields(_, _, _, _, _, _)
topEstoque(out, b, k, rest, sumStockQty, prefer, m) ==
  topFields(Put(out, k, Arr(mapValues(m.map))), b, rest, sumStockQty, prefer, m.report)

topNested(out, b, k, rest, sumStockQty, prefer, report, m) ==
  topFields(Put(out, k, m.out), b, rest, sumStockQty, prefer,
            [report EXCEPT !.conflicts = @ \o m.conflicts])

topField(out, b, k, rest, sumStockQty, prefer, report) ==
  IF k \notin DOMAIN out
    THEN topFields(Put(out, k, b[k]), b, rest, sumStockQty, prefer,
                   [report EXCEPT !.added = Bump(@, k)])
  ELSE IF k = "estoque" /\ (isArray(out[k]) \/ isArray(b[k]))
    THEN topEstoque(out, b, k, rest, sumStockQty, prefer,
                    mergeEstoque(ArrayOr(out[k]), ArrayOr(b[k]), sumStockQty, prefer, report))
  ELSE IF isArray(out[k]) \/ isArray(b[k])
    THEN topFields(Put(out, k, Arr(uniqById(ArrayOr(out[k]) \o ArrayOr(b[k])))),
                   b, rest, sumStockQty, prefer, report)
  ELSE IF isPlainObject(out[k]) \/ isPlainObject(b[k])
    THEN topNested(out, b, k, rest, sumStockQty, prefer, report,
                   mergeObjects(ObjectOr(out[k]), ObjectOr(b[k]), prefer, objPath(k)))
  ELSE IF out[k] # b[k]
    THEN topFields(IF prefer = "import" THEN Put(out, k, b[k]) ELSE out,
                   b, rest, sumStockQty, prefer,
                   [report EXCEPT !.conflicts = Append(@, conflictEntry(topPath(k), out[k], b[k], prefer))])
  ELSE topFields(out, b, rest, sumStockQty, prefer, report)

topFields(out, b, keys, sumStockQty, prefer, report) ==
  IF keys = <<>> THEN [db |-> Obj(stampAll(out)), report |-> report]
  ELSE topField(out, b, Head(keys), Tail(keys), sumStockQty, prefer, report)

\* options.prefer === "import" ? "import" : "current"
preferOf(options) ==
  IF "prefer" \in DOMAIN options /\ options.prefer = "import" THEN "import" ELSE "current"

\* options.sumStockQty !== false
sumStockQtyOf(options) == ~("sumStockQty" \in DOMAIN options /\ options.sumStockQty = FALSE)

\* mergeDBSmart(currentDB, incomingDB, options): [db, report]
mergeDBSmart(currentDB, incomingDB, options) ==
  topFields(ObjectOr(currentDB).f, ObjectOr(incomingDB).f, KeysOf(ObjectOr(incomingDB).f),
            sumStockQtyOf(options), preferOf(options), newReport)

(***************************************************************************)
(* integrations/server_sync.js: the sync path.  update/index.js builds the *)
(* Update object handed to createServerSync with the members install, db,  *)
(* ops, reports, fiscal, integrations, utils and merge: it has no member   *)
(* `storage` and no member `config`, and no options are passed.            *)
(***************************************************************************)
\* Update.storage and Update.config as update/index.js leaves them
UpdateStorage == Undefined
UpdateConfig == Undefined

\* the literal "ERP_DB"; getStorageKey() names 'erp_db'
FallbackKey == [t |-> "string", key |-> 1]

\* `(Update?.config?.getStorageKey && Update.config.getStorageKey()) || cfg.storageKey || "ERP_DB"`
syncKey == IF UpdateConfig # Undefined THEN CanonicalKey ELSE FallbackKey

\* the database of the persistence manager as a parsed JSON value, and back:
\* the stock items with their cod and qtd
asJson(db) ==
  Obj([estoque |-> Arr([k \in 1..Len(db.estoque) |-> Item(db.estoque[k].cod, db.estoque[k].qtd)])])

itemOf(it) ==
  [cod |-> IF "cod" \in DOMAIN fieldsOf(it) THEN StringOf(it.f.cod) ELSE <<>>,
   qtd |-> IF "qtd" \in DOMAIN fieldsOf(it) THEN asInt(it.f.qtd, 0) ELSE 0]

asDb(json) ==
  [defaultDB EXCEPT
     !.estoque = IF "estoque" \in DOMAIN json.f /\ isArray(json.f.estoque)
                   THEN [k \in 1..Len(json.f.estoque.a) |-> itemOf(json.f.estoque.a[k])]
                 ELSE <<>>]

\* localStorage.getItem(key); fb is the value under "ERP_DB"
getItem(s, fb, key) == IF key = CanonicalKey THEN s ELSE fb

\* `safeJSONParse(raw, {}) || {}`
parsedOr(v) ==
  IF v \in {Absent, EmptyText, CorruptText} THEN Obj(<<>>)
  ELSE IF "t" \in DOMAIN v THEN v
  ELSE asJson(v)

gotDB(r, fb) == [db |-> asJson(r.db), store |-> r.store, pm |-> r.pm, fb |-> fb]

\* getDB()
getDB(s, p, fb) ==
  IF UpdateStorage # Undefined THEN gotDB(dbGet(s, p, "none"), fb)
  ELSE [db |-> parsedOr(getItem(s, fb, syncKey)), store |-> s, pm |-> p, fb |-> fb]

setByCore(r, fb) ==
  [ok |-> r.ok, snapshotCreated |-> r.snapshotCreated, store |-> r.store, pm |-> r.pm, fb |-> fb]

\* localStorage.setItem(key, JSON.stringify(db))
setItem(s, p, fb, key, db) ==
  [ok |-> TRUE, snapshotCreated |-> FALSE,
   store |-> IF key = CanonicalKey THEN asDb(db) ELSE s,
   pm |-> p,
   fb |-> IF key = CanonicalKey THEN fb ELSE db]

\* setDB(db)
setDB(s, p, fb, db) ==
  IF UpdateStorage # Undefined THEN setByCore(dbSafeSave(s, p, asDb(db), TRUE, FALSE, "none"), fb)
  ELSE setItem(s, p, fb, syncKey, db)

\* the answer of loadDBFromServer when the load fails
LoadFailed == [t |-> "failed"]

synced(got, m, saved) ==
  [ok |-> saved.ok, store |-> saved.store, pm |-> saved.pm, fb |-> saved.fb,
   local |-> got.db, db |-> m.db, report |-> m.report]

mergeGot(got, remote, options, m) == synced(got, m, setDB(got.store, got.pm, got.fb, m.db))

\* mergeFromServer({prefer, sumStockQty}) once the server has answered
mergeFromServer(s, p, fb, remote, options) ==
  IF remote = LoadFailed
    THEN [ok |-> FALSE, store |-> s, pm |-> p, fb |-> fb, local |-> Obj(<<>>),
          db |-> Obj(<<>>), report |-> newReport]
  ELSE mergeGot(getDB(s, p, fb), remote, options,
                mergeDBSmart(getDB(s, p, fb).db, remote, options))

\* loadToLocal() once the server has answered
loadToLocal(s, p, fb, remote) ==
  IF remote = LoadFailed
    THEN [ok |-> FALSE, store |-> s, pm |-> p, fb |-> fb, local |-> Obj(<<>>),
          db |-> Obj(<<>>), report |-> newReport]
  ELSE synced([db |-> Obj(<<>>)], [db |-> remote, report |-> newReport], setDB(s, p, fb, remote))

(***************************************************************************)
(* storage/validate.js and storage/schema.js over any parsed JSON value    *)
(***************************************************************************)
Bool(b) == [t |-> "boolean", b |-> b]

\* o[k], undefined when the object has no such field
Field(f, k) == IF k \in DOMAIN f THEN f[k] ELSE Undefined

\* validate.js isObj
isObj(x) == x.t = "object"

\* validate.js asStr
asStr(x) == IF x \in {Undefined, Null} THEN <<>> ELSE StringOf(x)

\* `Array.isArray(v) ? v : []` and `isObj(v) ? v : {}` as values
arrayValue(v) == IF isArray(v) THEN v ELSE Arr(<<>>)

objValue(v) == IF isObj(v) THEN v ELSE Obj(<<>>)

\* `x || nowIso()`
orNow(x) == IF Falsy(x) THEN NowIso ELSE x

SCHEMA_VERSION == 1

\* schema.js defaultDB()
defaultJson ==
  Obj([schemaVersion |-> IntVal(SCHEMA_VERSION),
       meta |-> Obj([createdAt |-> NowIso, updatedAt |-> NowIso]),
       users |-> Arr(<<>>),
       settings |-> Obj(<<>>),
       estoque |-> Arr(<<>>),
       vendas |-> Arr(<<>>),
       caixa |-> Obj([aberto |-> Bool(FALSE), movimentos |-> Arr(<<>>), aberturas |-> Arr(<<>>)]),
       devedores |-> Arr(<<>>),
       auditLog |-> Arr(<<>>)])

\* a warning of the report: what was found, and the code or id named
warning(what, named) == [what |-> what, named |-> named]

\* variant: a negative amount is kept as it is
clamp_keep(n) == n

\* `if (x < 0) x = 0`
clamp(n) == IF n < 0 THEN 0 ELSE n

\* the estoque loop: the fields of a product after normalisation
productFields(f) ==
  [k \in (DOMAIN f) \cup {"cod", "nome", "qtd", "min", "custo_c", "preco_c", "lucro_p"} |->
     CASE k = "cod" -> Str(Trim(asStr(Field(f, "cod"))))
       [] k = "nome" -> Str(Trim(asStr(Field(f, "nome"))))
       [] k = "qtd" -> IntVal(clamp(asInt(Field(f, "qtd"), 0)))
       [] k = "min" -> IntVal(asInt(Field(f, "min"), 0))
       [] k = "custo_c" -> IntVal(clamp(asInt(Field(f, "custo_c"), 0)))
       [] k = "preco_c" -> IntVal(clamp(asInt(Field(f, "preco_c"), 0)))
       [] k = "lucro_p" -> Num(asNum(Field(f, "lucro_p"), 0))
       [] OTHER -> f[k]]

\* `p.cod || '(sem cod)'`
codOrNone(cod) == IF cod = <<>> THEN <<"(", "s", "e", "m", " ", "c", "o", "d", ")">> ELSE cod

warnIf(cond, what, named) == IF cond THEN <<warning(what, named)>> ELSE <<>>

\* the warnings the estoque loop pushes for a product, given its trimmed cod and nome
productWarningsOf(f, cod, nome) ==
  warnIf(cod = <<>> /\ nome # <<>>, "produto_sem_codigo", nome)
    \o warnIf(nome = <<>> /\ cod # <<>>, "produto_sem_nome", cod)
    \o warnIf(asInt(Field(f, "qtd"), 0) < 0, "estoque_negativo", codOrNone(cod))
    \o warnIf(asInt(Field(f, "preco_c"), 0) < 0, "preco_negativo", codOrNone(cod))
    \o warnIf(asInt(Field(f, "custo_c"), 0) < 0, "custo_negativo", codOrNone(cod))

productWarnings(f) ==
  productWarningsOf(f, Trim(asStr(Field(f, "cod"))), Trim(asStr(Field(f, "nome"))))

normalizeProductValue(p) == IF isObj(p) THEN Obj(productFields(p.f)) ELSE p

\* the items loop of a sale
itemFields(f) ==
  [k \in (DOMAIN f) \cup {"cod", "nome", "qtd", "preco_c"} |->
     CASE k = "cod" -> Str(Trim(asStr(Field(f, "cod"))))
       [] k = "nome" -> Str(Trim(asStr(Field(f, "nome"))))
       [] k = "qtd" -> Num(asNum(Field(f, "qtd"), 0))
       [] k = "preco_c" -> IntVal(asInt(Field(f, "preco_c"), 0))
       [] OTHER -> f[k]]

normalizeItemValue(i) == IF isObj(i) THEN Obj(itemFields(i.f)) ELSE i

itensOf(f) == arrayValue(Field(f, "itens")).a

\* `asStr(v.id).trim() || v.id`
idOr(id) == IF Trim(asStr(id)) = <<>> THEN id ELSE Str(Trim(asStr(id)))

\* asInt(v.total_c, Math.max(0, v.subtotal_c - v.desconto_c)) before the clamp
totalOf(f) ==
  asInt(Field(f, "total_c"),
        clamp(asInt(Field(f, "subtotal_c"), 0) - asInt(Field(f, "desconto_c"), 0)))

\* variant: a negative total is reported and kept
saleFields_keepTotal(f) ==
  [k \in (DOMAIN f) \cup {"id", "dataIso", "itens", "subtotal_c", "desconto_c", "total_c"} |->
     CASE k = "id" -> idOr(Field(f, "id"))
       [] k = "dataIso" -> orNow(Field(f, "dataIso"))
       [] k = "itens" -> Arr([n \in 1..Len(itensOf(f)) |-> normalizeItemValue(itensOf(f)[n])])
       [] k = "subtotal_c" -> IntVal(asInt(Field(f, "subtotal_c"), 0))
       [] k = "desconto_c" -> IntVal(asInt(Field(f, "desconto_c"), 0))
       [] k = "total_c" -> IntVal(totalOf(f))
       [] OTHER -> f[k]]

\* the vendas loop: the fields of a sale after normalisation
saleFields(f) ==
  [k \in (DOMAIN f) \cup {"id", "dataIso", "itens", "subtotal_c", "desconto_c", "total_c"} |->
     CASE k = "id" -> idOr(Field(f, "id"))
       [] k = "dataIso" -> orNow(Field(f, "dataIso"))
       [] k = "itens" -> Arr([n \in 1..Len(itensOf(f)) |-> normalizeItemValue(itensOf(f)[n])])
       [] k = "subtotal_c" -> IntVal(asInt(Field(f, "subtotal_c"), 0))
       [] k = "desconto_c" -> IntVal(asInt(Field(f, "desconto_c"), 0))
       [] k = "total_c" -> IntVal(clamp(totalOf(f)))
       [] OTHER -> f[k]]

\* `v.id || '(sem id)'`
idOrNone(id) == IF Falsy(id) THEN Str(<<"(", "s", "e", "m", " ", "i", "d", ")">>) ELSE id

saleWarnings(f) == warnIf(totalOf(f) < 0, "total_negativo", idOrNone(idOr(Field(f, "id"))))

normalizeSaleValue(v) == IF isObj(v) THEN Obj(saleFields(v.f)) ELSE v

\* the warnings of a loop over arr, in order
RECURSIVE loopWarnings(_, _, _)
loopWarnings(arr, n, sale) ==
  IF n > Len(arr) THEN <<>>
  ELSE (IF ~isObj(arr[n]) THEN <<>>
        ELSE IF sale THEN saleWarnings(arr[n].f) ELSE productWarnings(arr[n].f))
         \o loopWarnings(arr, n + 1, sale)

\* `isObj(db.meta) ? db.meta : {}` with createdAt and updatedAt set
metaFields(f) ==
  [k \in (DOMAIN f) \cup {"createdAt", "updatedAt"} |->
     CASE k = "createdAt" -> orNow(Field(f, "createdAt"))
       [] k = "updatedAt" -> NowIso
       [] OTHER -> f[k]]

\* variant: the lists of the cash register are not made regular
caixaFields_bare(f) ==
  [k \in (DOMAIN f) \cup {"aberto"} |->
     CASE k = "aberto" -> Bool(~Falsy(Field(f, "aberto")))
       [] OTHER -> f[k]]

\* `isObj(db.caixa) ? db.caixa : {aberto: false, movimentos: [], aberturas: []}` made regular
caixaFields(f) ==
  [k \in (DOMAIN f) \cup {"aberto", "movimentos", "aberturas"} |->
     CASE k = "aberto" -> Bool(~Falsy(Field(f, "aberto")))
       [] k = "movimentos" -> arrayValue(Field(f, "movimentos"))
       [] k = "aberturas" -> arrayValue(Field(f, "aberturas"))
       [] OTHER -> f[k]]

estoqueOf(f) == arrayValue(Field(f, "estoque")).a

vendasOf(f) == arrayValue(Field(f, "vendas")).a

\* the fields of an object database after normalizeDB
dbFields(f) ==
  [k \in (DOMAIN f) \cup {"schemaVersion", "meta", "users", "settings", "estoque", "vendas",
                          "caixa", "devedores", "auditLog"} |->
     CASE k = "schemaVersion" -> IntVal(asInt(Field(f, "schemaVersion"), SCHEMA_VERSION))
       [] k = "meta" -> Obj(metaFields(objValue(Field(f, "meta")).f))
       [] k = "users" -> arrayValue(Field(f, "users"))
       [] k = "settings" -> objValue(Field(f, "settings"))
       [] k = "estoque" -> Arr([n \in 1..Len(estoqueOf(f)) |-> normalizeProductValue(estoqueOf(f)[n])])
       [] k = "vendas" -> Arr([n \in 1..Len(vendasOf(f)) |-> normalizeSaleValue(vendasOf(f)[n])])
       [] k = "caixa" -> Obj(caixaFields(objValue(Field(f, "caixa")).f))
       [] k = "devedores" -> arrayValue(Field(f, "devedores"))
       [] k = "auditLog" -> arrayValue(Field(f, "auditLog"))
       [] OTHER -> f[k]]

\* validate.js normalizeDB(db) on any value: the database returned and normalizeDB.lastReport
normalizeValue(db) ==
  IF ~isObj(db)
    THEN [db |-> defaultJson,
          warnings |-> <<warning("db_invalido", <<>>)>>,
          fixed |-> <<"replaced_with_defaults">>]
  ELSE [db |-> Obj(dbFields(db.f)),
        warnings |-> loopWarnings(estoqueOf(db.f), 1, FALSE) \o loopWarnings(vendasOf(db.f), 1, TRUE),
        fixed |-> <<>>]

(***************************************************************************)
(* functions/api: handlePost saves a tenant database.  Each `await` of the *)
(* handler ends a step; other requests run between the steps.              *)
(***************************************************************************)
\* String(body.token || '').trim().toLowerCase()
tenantOf(token) == toLowerCase(Trim(token))

\* a request the server has not received
idle == [pc |-> "idle"]

\* the body is parsed and the client record read: bad request, blocked, or go on
accepted(token, blocked) ==
  IF tenantOf(token) = <<>> THEN [pc |-> "rejected", status |-> 400]
  ELSE IF blocked THEN [pc |-> "rejected", status |-> 200]
  ELSE [pc |-> "reading", tenant |-> tenantOf(token)]

\* the rev of the stored record, 0 when there is none
storedRev(kv, tenant) == IF tenant \in DOMAIN kv THEN kv[tenant] ELSE 0

\* `prev = await env.ERP_SYNC.get(...)`: a read error counts as revision 0
readPrev(kv, req, fault) ==
  [pc |-> "writing", tenant |-> req.tenant,
   prevRev |-> IF fault THEN 0 ELSE storedRev(kv, req.tenant)]

\* newRev = prevRev + 1
newRev(req) == req.prevRev + 1

\* `await env.ERP_SYNC.put(...)` and the response
putDone(req, fault) ==
  IF fault THEN [pc |-> "failed", tenant |-> req.tenant, status |-> 500]
  ELSE [pc |-> "done", tenant |-> req.tenant, rev |-> newRev(req)]

NoServer == [kv |-> <<>>, reqs |-> <<>>]

\* nothing is handed to a function on its own
NoTrial == [phase |-> "idle"]

\* the parts of the state an operation of another module never touches
Elsewhere == srv = NoServer /\ px = NoTrial

(***************************************************************************)
(* Initial state of the ledgers: init() has run on a database holding one   *)
(* product and two sales; no inventory running.                            *)
(***************************************************************************)
NoInventory == [active |-> FALSE, id |-> NoId, items |-> <<>>, started |-> 0]

\* no merge has been asked for
NoMerge == [phase |-> "idle"]

\* the database found under the canonical key when the module is installed
InitialDB(q) ==
  [estoque |-> <<[cod |-> CodX, qtd |-> q]>>,
   vendas |-> <<Sale5, Sale7>>,
   stockMovements |-> <<>>,
   saleVoids |-> <<>>,
   cashSessions |-> <<>>,
   caixa |-> [aberto |-> FALSE, currentSessionId |-> NoId]]

\* the state init() leaves
Installed(r) ==
  /\ store = r.store
  /\ pm = r.pm
  /\ inv = NoInventory
  /\ last = [op |-> "init", ok |-> TRUE]
  /\ mg = NoMerge
  /\ Elsewhere

Init == \E q \in InitialQtd : Installed(dbInit(InitialDB(q), PmLoaded, Undefined, "none"))

(***************************************************************************)
(* Inputs                                                                  *)
(***************************************************************************)
StockTypes == {"", "entrada", "saida", "ajuste", "perda", "devolucao", "brinde"}
ProductCods == {Str(<<" ", "X", " ">>), Str(CodZ)}
Qtys == {Undefined, Str(<<"2">>)}
QtyDeltas == {Undefined, Num(-3)}
InitialAmounts == {Undefined, Num(2)}
Amounts == {Num(-2), Num(3)}
CountedAmounts == {Undefined, Num(4)}
SaleIds == {Str(<<"5">>), IntVal(5), Str(<<" ", "5">>), Str(<<"7">>), Str(<<"9">>)}
CashSaleIds == {Str(<<"5">>)}
NoMeta == [kind |-> "null"]
InventoryCods == {Null, [codes |-> {CodZ}]}
CountedQtys == {Undefined, Num(5)}
\* the meta option of applyAdjustments: none, a note, the id of an older session
InventoryMetas ==
  {Null,
   [t |-> "object", f |-> [note |-> Str(<<"n">>)]],
   [t |-> "object", f |-> [inventoryId |-> generateId("inv", 0)]]}

\* a stored database that is not in normal form, and one that is
DbNeg == [defaultDB EXCEPT !.estoque = <<[cod |-> <<"X", " ">>, qtd |-> -1]>>]
DbOne == [defaultDB EXCEPT !.estoque = <<[cod |-> CodX, qtd |-> 1]>>]
StoredValues == {Absent, EmptyText, CorruptText, DbNeg}
ExternalValues == {CorruptText}
\* the databases handed to safeSave, with the skipNormalize option of the call
SaveInputs ==
  {[db |-> DbNeg, skipNormalize |-> FALSE],
   [db |-> DbNeg, skipNormalize |-> TRUE],
   [db |-> DbOne, skipNormalize |-> FALSE]}
Faults == {"none", "normalize", "tmp", "key", "snapshot"}
RecoveryFaults == {"none", "key"}
BackupCfgs == {Undefined, [maxSnapshots |-> 1]}
Ticks == {1500}
SnapshotIds == {generateId("snap", n) : n \in 1..MaxSnapshotsMade}
RestoreArgs ==
  {<<IdString(id)>> : id \in SnapshotIds}
    \cup {<<CanonicalKey, IdString(id)>> : id \in SnapshotIds}

(***************************************************************************)
(* Actions: one per exported operation                                     *)
(***************************************************************************)
\* the effect of an operation whose result is r
Returns(op, r) ==
  /\ store' = r.store
  /\ last' = [op |-> op, ok |-> r.ok]
  /\ UNCHANGED <<inv, pm, mg, srv, px>>

StockAddMovement(type, productCod, qty, qtyDelta) ==
  Returns("stock.addMovement", stockAddMovement(store, type, productCod, qty, qtyDelta, NoMeta))

CashOpen(initial_c) == Returns("cash.open", cashOpen(store, initial_c))

CashAddSale(saleId, amount_c) == Returns("cash.addSale", addSale(store, saleId, amount_c))

CashAddVoid(saleId, amount_c) == Returns("cash.addVoid", addVoid(store, saleId, amount_c))

CashWithdraw(amount_c) == Returns("cash.withdraw", withdraw(store, amount_c))

CashReinforce(amount_c) == Returns("cash.reinforce", reinforce(store, amount_c))

CashClose(counted_c) == Returns("cash.close", cashClose(store, counted_c))

CancelSale(saleId, restock) == Returns("sales.cancelSale", cancelSale(store, saleId, restock))

InventoryStart(productCods) ==
  /\ inv' = inventoryStart(store, inv, productCods)
  /\ last' = [op |-> "inventory.start", ok |-> TRUE]
  /\ UNCHANGED <<store, pm, mg, srv, px>>

InventoryReturns(op, r) ==
  /\ inv' = r.state
  /\ last' = [op |-> op, ok |-> r.ok]
  /\ UNCHANGED <<pm, mg, srv, px>>

InventorySetCount(productCod, countedQty) ==
  /\ InventoryReturns("inventory.setCount", setCount(inv, productCod, countedQty))
  /\ UNCHANGED <<store, srv, px>>

InventoryApplyAdjustments(meta) ==
  /\ store' = applyAdjustments(store, inv, meta).store
  /\ InventoryReturns("inventory.applyAdjustments", applyAdjustments(store, inv, meta))

(***************************************************************************)
(* Specifications.  Spec runs every ledger together; SpecStock and         *)
(* SpecCash run one ledger alone, to a greater depth.                      *)
(***************************************************************************)
Room == LedgerSize(store) < MaxLedger

\* the stock inputs drawn when every ledger runs together
LedgerStockTypes == {"saida", "devolucao"}
LedgerQtys == {Str(<<"2">>)}

Next ==
  \/ Room /\ \E type \in LedgerStockTypes, productCod \in ProductCods,
                qty \in LedgerQtys, qtyDelta \in QtyDeltas :
               StockAddMovement(type, productCod, qty, qtyDelta)
  \/ Room /\ \E initial_c \in InitialAmounts : CashOpen(initial_c)
  \/ Room /\ \E saleId \in CashSaleIds, amount_c \in Amounts : CashAddSale(saleId, amount_c)
  \/ Room /\ \E saleId \in CashSaleIds, amount_c \in Amounts : CashAddVoid(saleId, amount_c)
  \/ Room /\ \E amount_c \in Amounts : CashWithdraw(amount_c)
  \/ Room /\ \E amount_c \in Amounts : CashReinforce(amount_c)
  \/ \E counted_c \in CountedAmounts : CashClose(counted_c)
  \/ Room /\ \E saleId \in SaleIds, restock \in BOOLEAN : CancelSale(saleId, restock)
  \/ inv.started < MaxInventories /\ \E productCods \in InventoryCods : InventoryStart(productCods)
  \/ \E productCod \in ProductCods, countedQty \in CountedQtys :
       InventorySetCount(productCod, countedQty)
  \/ Room /\ \E meta \in InventoryMetas : InventoryApplyAdjustments(meta)

Spec == Init /\ [][Next]_vars

StockRoom == Len(store.stockMovements) < MaxStockMovs

NextStock ==
  \E type \in StockTypes, productCod \in ProductCods, qty \in Qtys, qtyDelta \in QtyDeltas :
    StockRoom /\ StockAddMovement(type, productCod, qty, qtyDelta)

SpecStock == Init /\ [][NextStock]_vars

CashRoom == LedgerSize(store) < MaxCashRecords

NextCash ==
  \/ CashRoom /\ \E initial_c \in InitialAmounts : CashOpen(initial_c)
  \/ CashRoom /\ \E saleId \in CashSaleIds, amount_c \in Amounts : CashAddSale(saleId, amount_c)
  \/ CashRoom /\ \E saleId \in CashSaleIds, amount_c \in Amounts : CashAddVoid(saleId, amount_c)
  \/ CashRoom /\ \E amount_c \in Amounts : CashWithdraw(amount_c)
  \/ CashRoom /\ \E amount_c \in Amounts : CashReinforce(amount_c)
  \/ \E counted_c \in CountedAmounts : CashClose(counted_c)

SpecCash == Init /\ [][NextCash]_vars

(***************************************************************************)
(* The persistence manager alone: SpecDb starts when db_core.js is loaded, *)
(* whatever lies under the canonical key.                                  *)
(***************************************************************************)
\* the effect of a persistence operation whose result is r, reported as res
Persists(r, res) ==
  /\ store' = r.store
  /\ pm' = r.pm
  /\ last' = res
  /\ UNCHANGED <<inv, mg, srv, px>>

Inits(r) == Persists(r, [op |-> "db.init", ok |-> TRUE, repaired |-> r.repaired])

DbInit(backupCfg, fault) == Inits(dbInit(store, pm, backupCfg, fault))

Gets(r) == Persists(r, [op |-> "db.get", ok |-> TRUE, db |-> r.db])

DbGet(fault) == Gets(dbGet(store, pm, fault))

Saves(r) ==
  Persists(r, [op |-> "db.safeSave", ok |-> r.ok, snapshotCreated |-> r.snapshotCreated])

DbSafeSave(db, forceSnapshot, skipNormalize, fault) ==
  Saves(dbSafeSave(store, pm, db, forceSnapshot, skipNormalize, fault))

\* backup.createSnapshot called directly, with the configured cap
BackupCreateSnapshot(db) ==
  /\ pm' = createSnapshot(pm, db, pm.maxSnapshots)
  /\ last' = [op |-> "backup.createSnapshot", ok |-> TRUE]
  /\ UNCHANGED <<store, inv, mg, srv, px>>

Restores(r) == Persists(r, [op |-> "backup.restoreSnapshot", ok |-> r.ok])

BackupRestoreSnapshot(args, fault) == Restores(restoreSnapshot(store, pm, args, fault))

\* time passes
Tick(d) ==
  /\ pm' = [pm EXCEPT !.now = @ + d]
  /\ last' = [op |-> "tick", ok |-> TRUE]
  /\ UNCHANGED <<store, inv, mg, srv, px>>

\* something else writes the canonical key
ExternalWrite(v) ==
  /\ store' = v
  /\ last' = [op |-> "external", ok |-> TRUE]
  /\ UNCHANGED <<inv, pm, mg, srv, px>>

InitDb ==
  /\ store \in StoredValues
  /\ pm = PmLoaded
  /\ inv = NoInventory
  /\ last = [op |-> "load", ok |-> TRUE]
  /\ mg = NoMerge
  /\ Elsewhere

SnapRoom == pm.snapSeq < MaxSnapshotsMade

NextDb ==
  \/ SnapRoom /\ \E backupCfg \in BackupCfgs, fault \in RecoveryFaults : DbInit(backupCfg, fault)
  \/ SnapRoom /\ \E fault \in RecoveryFaults : DbGet(fault)
  \/ SnapRoom /\ \E in \in SaveInputs, forceSnapshot \in BOOLEAN, fault \in Faults :
                  DbSafeSave(in.db, forceSnapshot, in.skipNormalize, fault)
  \/ SnapRoom /\ BackupCreateSnapshot(DbOne)
  \/ SnapRoom /\ \E args \in RestoreArgs, fault \in RecoveryFaults :
                  BackupRestoreSnapshot(args, fault)
  \/ \E d \in Ticks : pm.now + d <= MaxNow /\ Tick(d)
  \/ \E v \in ExternalValues : ExternalWrite(v)

SpecDb == InitDb /\ [][NextDb]_vars

(***************************************************************************)
(* The merge engine on its own: a current database, an incoming one and    *)
(* the options of the call, then the merge.  Stock quantities are whole    *)
(* numbers and a product code occurs once on each side, as in every        *)
(* database validate.js has normalised and the stock ledger has kept.      *)
(***************************************************************************)
S(c) == Str(<<c>>)

\* a stock item without a product code
Nameless(nome) == Obj([nome |-> S(nome), qtd |-> IntVal(1)])

T0 == Str(<<"T", "0">>)
T1 == Str(<<"T", "1">>)

Cur1 ==
  Obj([estoque |-> Arr(<<Item(<<"A">>, 10), Item(<<" ", "B">>, 2), Nameless("n")>>),
       loja |-> S("L"),
       settings |-> Obj([tema |-> S("d"), moeda |-> S("R")]),
       meta |-> Obj([updatedAt |-> T0]),
       devedores |-> Arr(<<Obj([id |-> IntVal(1), nome |-> S("a")]),
                           Obj([cpf |-> S("1"), valor |-> IntVal(1)])>>)])
Cur2 == Obj([estoque |-> Arr(<<Item(<<"A">>, 10)>>), loja |-> S("L")])
Cur3 == Obj([loja |-> S("L"), devedores |-> Arr(<<>>)])
Cur4 ==
  Obj([estoque |-> Arr(<<Item(<<"C">>, 0)>>), loja |-> S("M"),
       meta |-> Obj([updatedAt |-> T1])])
Currents == {Cur1, Cur2, Cur3, Cur4}

Inc1 ==
  Obj([estoque |-> Arr(<<Item(<<"A", " ">>, 5), Item(<<"C">>, 7), Nameless("m")>>),
       loja |-> S("M"),
       settings |-> Obj([tema |-> S("l"), moeda |-> S("R")]),
       meta |-> Obj([updatedAt |-> T1]),
       devedores |-> Arr(<<Obj([id |-> IntVal(1), nome |-> S("b")]),
                           Obj([cpf |-> S("1"), valor |-> IntVal(2)])>>)])
Inc2 == Obj([estoque |-> Arr(<<Item(<<"A">>, 5)>>)])
Inc3 == Obj([estoque |-> Arr(<<>>), loja |-> S("L")])
Inc4 == Obj([loja |-> S("M"), settings |-> Obj([tema |-> S("d"), moeda |-> S("U")])])
Incomings == {Inc1, Inc2, Inc3, Inc4}

NoOptions == <<>>
MergeOptions ==
  {NoOptions,
   [prefer |-> "import"],
   [sumStockQty |-> FALSE],
   [prefer |-> "import", sumStockQty |-> FALSE],
   [prefer |-> "current", sumStockQty |-> TRUE]}

merged(m, r) == [m EXCEPT !.phase = "merged"] @@ [db |-> r.db, report |-> r.report]

\* mergeImportedFile(currentDB, importedDB, options)
MergeImportedFile ==
  /\ mg.phase = "asked"
  /\ mg' = merged(mg, mergeDBSmart(mg.current, mg.incoming, mg.options))
  /\ last' = [op |-> "merge", ok |-> TRUE]
  /\ UNCHANGED <<store, inv, pm, srv, px>>

InitMerge ==
  /\ store = Absent
  /\ pm = PmLoaded
  /\ Elsewhere
  /\ inv = NoInventory
  /\ last = [op |-> "load", ok |-> TRUE]
  /\ \E current \in Currents, incoming \in Incomings, options \in MergeOptions :
       mg = [phase |-> "asked", current |-> current, incoming |-> incoming, options |-> options]

NextMerge == MergeImportedFile

SpecMerge == InitMerge /\ [][NextMerge]_vars

(***************************************************************************)
(* The sync path over the store the persistence manager initialised        *)
(***************************************************************************)
MaxSyncs == 2

Remote1 == Obj([estoque |-> Arr(<<Item(CodX, 5), Item(CodZ, 7)>>)])
Remote2 == Obj([estoque |-> Arr(<<Item(<<"X", " ">>, 1)>>)])
Remotes == {LoadFailed, Remote1, Remote2}

SyncOptions == {NoOptions, [prefer |-> "import", sumStockQty |-> FALSE]}

\* what the device holds under "ERP_DB" before the first sync
FallbackValues == {Absent, CorruptText, Remote2}

Synced(op, r) ==
  /\ store' = r.store
  /\ pm' = r.pm
  /\ mg' = [phase |-> "synced", syncs |-> mg.syncs + 1, fb |-> r.fb,
            local |-> r.local, db |-> r.db, report |-> r.report]
  /\ last' = [op |-> op, ok |-> r.ok]
  /\ UNCHANGED <<inv, srv, px>>

MergeFromServer(remote, options) ==
  Synced("sync.mergeFromServer", mergeFromServer(store, pm, mg.fb, remote, options))

LoadToLocal(remote) == Synced("sync.loadToLocal", loadToLocal(store, pm, mg.fb, remote))

InitSync ==
  /\ store = dbInit(DbOne, PmLoaded, Undefined, "none").store
  /\ Elsewhere
  /\ pm = dbInit(DbOne, PmLoaded, Undefined, "none").pm
  /\ inv = NoInventory
  /\ last = [op |-> "init", ok |-> TRUE]
  /\ \E fb \in FallbackValues : mg = [phase |-> "installed", syncs |-> 0, fb |-> fb]

NextSync ==
  \/ mg.syncs < MaxSyncs /\ \E remote \in Remotes, options \in SyncOptions :
                              MergeFromServer(remote, options)
  \/ mg.syncs < MaxSyncs /\ \E remote \in Remotes : LoadToLocal(remote)
  \/ SnapRoom /\ \E in \in SaveInputs : DbSafeSave(in.db, TRUE, in.skipNormalize, "none")

SpecSync == InitSync /\ [][NextSync]_vars

(***************************************************************************)
(* The save endpoint under concurrent requests                             *)
(***************************************************************************)
MaxRequests == 3

Requests == 1..MaxRequests

\* the tokens the bodies carry
Tokens == {<<"A">>, <<"a", " ">>, <<"b">>, <<" ">>}

Served(r, req, kv) ==
  /\ srv' = [kv |-> kv, reqs |-> [srv.reqs EXCEPT ![r] = req]]
  /\ last' = [op |-> "server.save", ok |-> req.pc = "done"]
  /\ UNCHANGED <<store, inv, pm, mg, px>>

\* handlePost up to the read of the client record
Accept(r, token, blocked) ==
  /\ srv.reqs[r].pc = "idle"
  /\ Served(r, accepted(token, blocked), srv.kv)

\* handlePost: the read of the previous record
ReadPrev(r, fault) ==
  /\ srv.reqs[r].pc = "reading"
  /\ Served(r, readPrev(srv.kv, srv.reqs[r], fault), srv.kv)

\* handlePost: the write of the new record and the response
PutRecord(r, fault) ==
  /\ srv.reqs[r].pc = "writing"
  /\ Served(r, putDone(srv.reqs[r], fault),
            IF fault THEN srv.kv ELSE Put(srv.kv, srv.reqs[r].tenant, newRev(srv.reqs[r])))

InitServer ==
  /\ store = Absent
  /\ pm = PmLoaded
  /\ inv = NoInventory
  /\ last = [op |-> "load", ok |-> TRUE]
  /\ mg = NoMerge
  /\ px = NoTrial
  /\ srv = [kv |-> <<>>, reqs |-> [r \in Requests |-> idle]]

NextServer ==
  \/ \E r \in Requests, token \in Tokens, blocked \in BOOLEAN : Accept(r, token, blocked)
  \/ \E r \in Requests, fault \in BOOLEAN : ReadPrev(r, fault)
  \/ \E r \in Requests, fault \in BOOLEAN : PutRecord(r, fault)

SpecServer == InitServer /\ [][NextServer]_vars

(***************************************************************************)
(* validate.js on its own: a value is handed to normalizeDB, and the       *)
(* result is handed to it again                                            *)
(***************************************************************************)
MaxEstoque == 2

ProdOk == Obj([cod |-> S("X"), nome |-> S("n"), qtd |-> IntVal(3), preco_c |-> IntVal(5)])
ProdNeg ==
  Obj([cod |-> Str(<<" ", "X", " ">>), nome |-> S("n"), qtd |-> IntVal(-1),
       preco_c |-> IntVal(-2)])
ProdText == Obj([cod |-> S("Z"), qtd |-> Str(<<"-", "2">>), preco_c |-> Num(3)])
ProdNoCode == Obj([nome |-> S("n"), qtd |-> IntVal(-1)])
ProdNumberCode == Obj([cod |-> IntVal(7), custo_c |-> IntVal(-4)])
ProdFraction == Obj([cod |-> S("Y"), qtd |-> Num(-1), preco_c |-> IntVal(2)])
ProductValues == {ProdOk, ProdNeg, ProdText, ProdNoCode, ProdNumberCode, ProdFraction, Null}

SaleNeg ==
  Obj([id |-> IntVal(5), total_c |-> IntVal(-3),
       itens |-> Arr(<<Obj([cod |-> Str(<<"X", " ">>), qtd |-> Str(<<"1", ",", "5">>)]), Null>>)])
SaleBare == Obj([id |-> S(" "), subtotal_c |-> IntVal(2), desconto_c |-> IntVal(5)])

EstoqueValues == UNION {[1..n -> ProductValues] : n \in 0..MaxEstoque}

\* a database whose collections are missing or of the wrong type
DbWrong ==
  Obj([estoque |-> S("x"), vendas |-> Null, caixa |-> Arr(<<>>), settings |-> IntVal(1),
       cashSessions |-> S("x"), meta |-> Obj([createdAt |-> T0, updatedAt |-> T0])])
DbSales ==
  Obj([schemaVersion |-> S("1"), vendas |-> Arr(<<SaleNeg, SaleBare, Null>>),
       caixa |-> Obj([aberto |-> IntVal(1)]), cashSessions |-> Arr(<<>>)])

NormalizeInputs ==
  {Null, Undefined, IntVal(1), S("x"), Arr(<<>>), Obj(<<>>), DbWrong, DbSales}
    \cup {Obj([estoque |-> Arr(e)]) : e \in EstoqueValues}

\* validate.normalizeDB(x)
Normalize ==
  /\ px.phase = "given"
  /\ px' = [phase |-> "normalized", x |-> px.x, out |-> normalizeValue(px.x)]
  /\ last' = [op |-> "validate.normalizeDB", ok |-> TRUE]
  /\ UNCHANGED <<store, inv, pm, mg, srv>>

\* validate.normalizeDB(validate.normalizeDB(x))
NormalizeAgain ==
  /\ px.phase = "normalized"
  /\ px' = [phase |-> "twice", x |-> px.x, out |-> px.out, again |-> normalizeValue(px.out.db)]
  /\ last' = [op |-> "validate.normalizeDB", ok |-> TRUE]
  /\ UNCHANGED <<store, inv, pm, mg, srv>>

InitNormalize ==
  /\ store = Absent
  /\ pm = PmLoaded
  /\ inv = NoInventory
  /\ last = [op |-> "load", ok |-> TRUE]
  /\ mg = NoMerge
  /\ srv = NoServer
  /\ \E x \in NormalizeInputs : px = [phase |-> "given", x |-> x]

NextNormalize == Normalize \/ NormalizeAgain

SpecNormalize == InitNormalize /\ [][NextNormalize]_vars

(***************************************************************************)
(* Helpers of the properties                                               *)
(***************************************************************************)
RECURSIVE SaleLineHalves(_, _)
\* sum, in halves, of the quantities of the sale lines carrying that code
SaleLineHalves(itens, code) ==
  IF itens = <<>> THEN 0
  ELSE (IF Trim(Head(itens).cod) = code THEN Head(itens).qtd ELSE 0)
       + SaleLineHalves(Tail(itens), code)

RECURSIVE SumAmounts(_)
SumAmounts(movements) ==
  IF movements = <<>> THEN 0 ELSE Head(movements).amount_c + SumAmounts(Tail(movements))

OpenSessions(s) == {i \in 1..Len(s.cashSessions) : ~s.cashSessions[i].closed}

VoidsOfSale(s, id) == {k \in 1..Len(s.saleVoids) : Trim(s.saleVoids[k].saleId) = id}

ValidStockTypes == {"entrada", "saida", "ajuste", "perda", "devolucao"}

\* the step created a snapshot of db, now at the front of the list
SnapshotTaken(db) ==
  /\ pm'.snapSeq = pm.snapSeq + 1
  /\ pm'.snapshots # <<>>
  /\ pm'.snapshots[1] = [id |-> generateId("snap", pm'.snapSeq), at |-> pm.now, data |-> db]

\* the recovery path has run to its end
Recovered ==
  /\ pm'.recovery.active
  /\ store' = defaultDB
  /\ SnapshotTaken(defaultDB)

\* the snapshot identifier a restoreSnapshot call means
MeantId(args) == args[Len(args)].id

SnapshotsWithId(id) == {k \in 1..Len(pm.snapshots) : pm.snapshots[k].id = id}

(***************************************************************************)
(* C1: after cancelSale(saleId, reason, restock = true) returns ok:true,   *)
(* every product whose code appears in the sale's lines has its persisted  *)
(* quantity increased by exactly the sum of that code's line quantities,   *)
(* and the store holds exactly one new SaleVoid record, for that sale.     *)
(***************************************************************************)
C1_CancelRestocks ==
  [][\A saleId \in SaleIds :
       (CancelSale(saleId, TRUE) /\ last'.ok) =>
         LET sale == store.vendas[CHOOSE i \in 1..Len(store.vendas) :
                                    store.vendas[i].id = TrimmedString(saleId)]
         IN /\ \A i \in 1..Len(store.estoque) :
                 2 * (store'.estoque[i].qtd - store.estoque[i].qtd)
                   = SaleLineHalves(sale.itens, store.estoque[i].cod)
            /\ Len(store'.saleVoids) = Len(store.saleVoids) + 1
            /\ SubSeq(store'.saleVoids, 1, Len(store.saleVoids)) = store.saleVoids
            /\ Trim(store'.saleVoids[Len(store'.saleVoids)].saleId) = sale.id]_vars

(***************************************************************************)
(* C2: once a sale has been cancelled, a second cancelSale for the same    *)
(* sale (saleId a string or a number, with or without surrounding          *)
(* whitespace) returns ok:false and leaves the store unchanged, so         *)
(* saleVoids never holds two records for one sale.                         *)
(***************************************************************************)
C2_SecondCancelRejected ==
  [][\A saleId \in SaleIds, restock \in BOOLEAN :
       (CancelSale(saleId, restock) /\ VoidsOfSale(store, TrimmedString(saleId)) # {}) =>
         /\ ~last'.ok
         /\ store' = store
         /\ Cardinality(VoidsOfSale(store', TrimmedString(saleId))) = 1]_vars

(***************************************************************************)
(* C3: after cancelSale returns ok:true while a cash session is open, the  *)
(* persisted open session has gained exactly one movement of type estorno  *)
(* with amount_c = -|sale.total_c| and its expected_c is lower by          *)
(* |sale.total_c|; with no open session the cancellation succeeds and no   *)
(* cash session changes.                                                   *)
(***************************************************************************)
C3_CancelPostsEstorno ==
  [][\A saleId \in SaleIds, restock \in BOOLEAN :
       (CancelSale(saleId, restock) /\ last'.ok) =>
         LET sale == store.vendas[CHOOSE i \in 1..Len(store.vendas) :
                                    store.vendas[i].id = TrimmedString(saleId)]
         IN IF OpenSessions(store) = {}
              THEN store'.cashSessions = store.cashSessions
              ELSE \A i \in OpenSessions(store) :
                     LET before == store.cashSessions[i]
                         after == store'.cashSessions[i]
                     IN /\ Len(after.movements) = Len(before.movements) + 1
                        /\ after.movements[Len(after.movements)].type = "estorno"
                        /\ after.movements[Len(after.movements)].amount_c = -Abs(sale.total_c)
                        /\ after.expected_c = before.expected_c - Abs(sale.total_c)]_vars

(***************************************************************************)
(* C4: after any sequence of stock addMovement calls every product's       *)
(* persisted qtd is an integer >= 0, and a movement whose delta would take *)
(* the quantity below zero leaves it at exactly 0.                         *)
(***************************************************************************)
C4_StockNeverNegative ==
  /\ [](\A i \in 1..Len(store.estoque) : store.estoque[i].qtd \in Nat)
  /\ [][(last'.op = "stock.addMovement" /\ last'.ok) =>
          LET mv == store'.stockMovements[Len(store'.stockMovements)]
          IN \A i \in 1..Len(store.estoque) :
               (store.estoque[i].cod = mv.productCod
                  /\ store.estoque[i].qtd + mv.qtyDelta < 0)
                 => store'.estoque[i].qtd = 0]_vars

C4_Witness ==
  /\ last = [op |-> "stock.addMovement", ok |-> TRUE]
  /\ Len(store.stockMovements) = 2
  /\ store.stockMovements[1].qtyDelta = -2
  /\ store.stockMovements[2].qtyDelta = -2
  /\ store.estoque[1].qtd = 0

(***************************************************************************)
(* C5: every StockMovement recorded by addMovement has a type among        *)
(* entrada, saida, ajuste, perda, devolucao, and a qtyDelta whose sign     *)
(* follows the type: <= 0 for saida and perda, >= 0 for entrada and        *)
(* devolucao, the caller's own value for ajuste.                           *)
(***************************************************************************)
C5_MovementTypeAndSign ==
  [][\A type \in StockTypes, productCod \in ProductCods, qty \in Qtys, qtyDelta \in QtyDeltas :
       (StockAddMovement(type, productCod, qty, qtyDelta) /\ last'.ok) =>
         LET mv == store'.stockMovements[Len(store'.stockMovements)]
             given == IF qtyDelta # Undefined THEN asInt(qtyDelta, 0) ELSE asInt(qty, 0)
         IN /\ mv.type \in ValidStockTypes
            /\ mv.type \in {"saida", "perda"} => mv.qtyDelta <= 0
            /\ mv.type \in {"entrada", "devolucao"} => mv.qtyDelta >= 0
            /\ mv.type = "ajuste" => mv.qtyDelta = given]_vars

C7_ExpectedIsRunningSum ==
  \A i \in 1..Len(store.cashSessions) :
    LET sess == store.cashSessions[i]
    IN /\ sess.expected_c = sess.initial_c + SumAmounts(sess.movements)
       /\ \A k \in 1..Len(sess.movements) :
            /\ sess.movements[k].type \in {"venda", "reforco"} => sess.movements[k].amount_c >= 0
            /\ sess.movements[k].type \in {"estorno", "sangria"} => sess.movements[k].amount_c <= 0

C7_Witness ==
  \E i \in 1..Len(store.cashSessions) :
    LET m == store.cashSessions[i].movements
    IN /\ Len(m) = 3
       /\ m[1].type = "venda" /\ m[1].amount_c > 0
       /\ m[2].type = "sangria" /\ m[2].amount_c < 0
       /\ m[3].type = "estorno" /\ m[3].amount_c < 0

(***************************************************************************)
(* C8: close({counted_c}) on an open session sets counted_c to the given   *)
(* integer, diff_c = counted_c - expected_c with the expected_c            *)
(* accumulated so far, marks the session closed and clears the pointer     *)
(* (caixa.aberto = false, currentSessionId = null).                        *)
(***************************************************************************)
C8_CloseComputesDiff ==
  [][\A counted_c \in CountedAmounts :
       (CashClose(counted_c) /\ OpenSessions(store) # {}) =>
         \A i \in OpenSessions(store) :
           LET before == store.cashSessions[i]
               after == store'.cashSessions[i]
               given == IF counted_c = Undefined THEN 0 ELSE counted_c.h \div 2
           IN /\ last'.ok
              /\ after.closed
              /\ after.counted_c = IntVal(given)
              /\ after.diff_c = IntVal(given - before.expected_c)
              /\ after.expected_c = before.expected_c
              /\ store'.caixa = [aberto |-> FALSE, currentSessionId |-> NoId]]_vars

C8_Witness ==
  /\ last = [op |-> "cash.close", ok |-> TRUE]
  /\ \E i \in 1..Len(store.cashSessions) :
       /\ store.cashSessions[i].closed
       /\ Len(store.cashSessions[i].movements) = 2
       /\ store.cashSessions[i].counted_c = IntVal(2)
       /\ store.cashSessions[i].diff_c = IntVal(-1)

(***************************************************************************)
(* C9: once a cash session is closed, no later ledger operation changes    *)
(* its initial_c, expected_c, counted_c, diff_c or movements.              *)
(***************************************************************************)
C9_ClosedSessionFrozen ==
  [][\A i \in 1..Len(store.cashSessions) :
       store.cashSessions[i].closed =>
         /\ i <= Len(store'.cashSessions)
         /\ store'.cashSessions[i] = store.cashSessions[i]]_vars

C9_Witness ==
  /\ last = [op |-> "cash.open", ok |-> TRUE]
  /\ Len(store.cashSessions) = 2
  /\ store.cashSessions[1].closed
  /\ store.cashSessions[1].diff_c # IntVal(0)

C12_SaveFailureCaught ==
  [][last'.op = "db.safeSave" =>
     \A in \in SaveInputs, forceSnapshot \in BOOLEAN, fault \in Faults :
       (/\ \/ fault \in {"tmp", "key"}
           \/ fault = "normalize" /\ ~in.skipNormalize
           \/ fault = "snapshot"
                /\ (forceSnapshot \/ pm.now - pm.lastSnapshotAt >= cooldownMs)
        /\ DbSafeSave(in.db, forceSnapshot, in.skipNormalize, fault))
         => /\ last' = [op |-> "db.safeSave", ok |-> FALSE, snapshotCreated |-> FALSE]
            /\ pm'.recovery = [active |-> TRUE, reason |-> "storage_error"]
            /\ pm'.snapshots = pm.snapshots]_vars

C12_Witness ==
  /\ last = [op |-> "db.safeSave", ok |-> FALSE, snapshotCreated |-> FALSE]
  /\ pm.recovery = [active |-> TRUE, reason |-> "storage_error"]
  /\ pm.tmp
  /\ store = CorruptText

C15_RestoreMakesSnapshotCurrent ==
  [][last'.op = "backup.restoreSnapshot" =>
       \A args \in RestoreArgs :
         BackupRestoreSnapshot(args, "none") =>
           IF SnapshotsWithId(MeantId(args)) # {}
             THEN /\ last'.ok
                  /\ dbGet(store', pm', "none").db
                       = normalizeDB(pm.snapshots[CHOOSE k \in SnapshotsWithId(MeantId(args)) :
                                                    TRUE].data)
             ELSE ~last'.ok /\ store' = store]_vars

(***************************************************************************)
(* Merge engine                                                            *)
(***************************************************************************)
\* the estoque collection of a database, empty when it has none
EstoqueOf(db) ==
  IF "estoque" \in DOMAIN db.f /\ isArray(db.f.estoque) THEN db.f.estoque.a ELSE <<>>

\* the product code an item is known by: its `cod` without surrounding blanks
ItemCode(it) ==
  IF isPlainObject(it) /\ "cod" \in DOMAIN it.f THEN Trim(it.f.cod.s) ELSE <<>>

WithCode(arr, c) == {k \in 1..Len(arr) : ItemCode(arr[k]) = c}

Codes(arr) == {ItemCode(arr[k]) : k \in 1..Len(arr)} \ {<<>>}

\* the qtd of the item carrying code c
QtdOfCode(arr, c) == arr[CHOOSE k \in WithCode(arr, c) : TRUE].f.qtd

\* the options as the contract reads them
OptSum(options) == IF "sumStockQty" \in DOMAIN options THEN options.sumStockQty ELSE TRUE

OptImport(options) == "prefer" \in DOMAIN options /\ options.prefer = "import"

\* what the contract makes the quantity of a code found on both sides
ContractQtd(options, cur, inc) ==
  IF OptSum(options) THEN Num(cur.h + inc.h) ELSE IF OptImport(options) THEN inc ELSE cur

ExpectedQtd(options, cur, inc, c) ==
  IF c \in Codes(cur) /\ c \in Codes(inc)
    THEN ContractQtd(options, QtdOfCode(cur, c), QtdOfCode(inc, c))
  ELSE IF c \in Codes(cur) THEN QtdOfCode(cur, c)
  ELSE QtdOfCode(inc, c)

MergedQtdRight(options, cur, inc, out) ==
  \A c \in Codes(cur) \cup Codes(inc) :
    /\ Cardinality(WithCode(out, c)) = 1
    /\ QtdOfCode(out, c) = ExpectedQtd(options, cur, inc, c)

\* C16: after a merge, every product code found on either side is carried by
\* exactly one item of the merged estoque; when the code is on both sides its
\* qtd is current.qtd + incoming.qtd under sumStockQty (the default) and
\* otherwise the qtd of the side prefer names; when it is on one side only
\* the item keeps its own qtd.
C16_EstoqueKeyedByCode ==
  mg.phase = "merged" =>
    MergedQtdRight(mg.options, EstoqueOf(mg.current), EstoqueOf(mg.incoming), EstoqueOf(mg.db))

\* C16 witness: a merge without summing that prefers the import, where one
\* code is on both sides and another on one side only.
C16_Witness ==
  /\ mg.phase = "merged"
  /\ ~OptSum(mg.options) /\ OptImport(mg.options)
  /\ Codes(EstoqueOf(mg.current)) \cap Codes(EstoqueOf(mg.incoming)) # {}
  /\ Codes(EstoqueOf(mg.current)) \ Codes(EstoqueOf(mg.incoming)) # {}
  /\ Codes(EstoqueOf(mg.incoming)) \ Codes(EstoqueOf(mg.current)) # {}

\* the items of a stock list that carry no product code
Codeless(arr) == {k \in 1..Len(arr) : ItemCode(arr[k]) = <<>>}

\* C17: after a merge no item of the merged estoque lacks a product code, and
\* report.warnings holds an entry for every code-less item of the current
\* side and of the incoming side.
C17_CodelessDroppedWithWarning ==
  mg.phase = "merged" =>
    /\ Codeless(EstoqueOf(mg.db)) = {}
    /\ Len(mg.report.warnings)
         >= Cardinality(Codeless(EstoqueOf(mg.current)))
              + Cardinality(Codeless(EstoqueOf(mg.incoming)))

IsPrimitive(v) == v.t \notin {"object", "array"}

\* the keys present on both sides, at top level or nested in plain objects,
\* whose two values are differing primitives: [keys, current, incoming]
RECURSIVE Differing(_, _, _)
DifferingAt(a, b, keys, k) ==
  IF isPlainObject(a[k]) /\ isPlainObject(b[k]) THEN Differing(a[k].f, b[k].f, Append(keys, k))
  ELSE IF IsPrimitive(a[k]) /\ IsPrimitive(b[k]) /\ a[k] # b[k]
    THEN {[keys |-> Append(keys, k), current |-> a[k], incoming |-> b[k]]}
  ELSE {}

Differing(a, b, keys) == UNION {DifferingAt(a, b, keys, k) : k \in (DOMAIN a) \cap (DOMAIN b)}

\* the value a database holds at a path of keys
RECURSIVE At(_, _)
At(v, keys) == IF keys = <<>> THEN v ELSE At(v.f[Head(keys)], Tail(keys))

\* the conflict entries outside the stock items
PlainConflicts(report) ==
  {i \in 1..Len(report.conflicts) : "estoque" \notin DOMAIN report.conflicts[i].path.scope}

\* exactly one conflict entry carries the path, with both candidate values
OneConflictFor(report, d) ==
  /\ Cardinality({i \in PlainConflicts(report) : report.conflicts[i].path.keys = d.keys}) = 1
  /\ \E i \in PlainConflicts(report) :
       /\ report.conflicts[i].path.keys = d.keys
       /\ report.conflicts[i].current = d.current
       /\ report.conflicts[i].incoming = d.incoming

\* no conflict entry for anything but a pair of differing primitives
OnlyDiffering(report, ds) ==
  \A i \in PlainConflicts(report) : \E d \in ds : report.conflicts[i].path.keys = d.keys

Preferred(options, d) == IF OptImport(options) THEN d.incoming ELSE d.current

\* the two stamps the merge writes itself
StampPaths == {<<"meta", "updatedAt">>, <<"_meta", "savedAt">>}

ConflictsResolved(options, db, report, ds) ==
  /\ \A d \in ds : At(db, d.keys) = Preferred(options, d) /\ OneConflictFor(report, d)
  /\ OnlyDiffering(report, ds)

ConflictsResolvedButStamps(options, db, report, ds) ==
  /\ \A d \in ds :
       /\ At(db, d.keys) = (IF d.keys \in StampPaths THEN NowIso ELSE Preferred(options, d))
       /\ OneConflictFor(report, d)
  /\ OnlyDiffering(report, ds)

\* C18 as stated: after a merge, every key on both sides (top level or nested
\* in plain objects) whose values are differing primitives holds the value of
\* the side prefer names, report.conflicts has exactly one entry with its
\* path and both values, and no entry exists for equal primitives.
C18_PrimitivesResolvedByPrefer ==
  mg.phase = "merged" =>
    ConflictsResolved(mg.options, mg.db, mg.report, Differing(mg.current.f, mg.incoming.f, <<>>))

\* C18 amended: the same, except that meta.updatedAt and _meta.savedAt hold
\* the time of the merge whatever prefer says (their conflict is still
\* recorded).
C18_PrimitivesResolvedExceptStamps ==
  mg.phase = "merged" =>
    ConflictsResolvedButStamps(mg.options, mg.db, mg.report,
                               Differing(mg.current.f, mg.incoming.f, <<>>))

\* C18 witness: a merge preferring the import with a differing primitive at
\* top level, one nested in a plain object, and differing meta.updatedAt.
C18_Witness ==
  /\ mg.phase = "merged"
  /\ OptImport(mg.options)
  /\ \E d \in Differing(mg.current.f, mg.incoming.f, <<>>) : Len(d.keys) = 1
  /\ \E d \in Differing(mg.current.f, mg.incoming.f, <<>>) :
       Len(d.keys) = 2 /\ d.keys \notin StampPaths
  /\ \E d \in Differing(mg.current.f, mg.incoming.f, <<>>) : d.keys \in StampPaths

\* the array keys, other than estoque, present on both sides
SharedArrayKeys(a, b) ==
  {k \in ((DOMAIN a) \cap (DOMAIN b)) \ {"estoque"} : isArray(a[k]) /\ isArray(b[k])}

\* two elements are the same record: they share the identifier the probe
\* finds, or have none and are equal
SameRecord(x, y) ==
  IF fingerprint(x) = Undefined \/ fingerprint(y) = Undefined THEN x = y
  ELSE fingerprint(x) = fingerprint(y)

\* out is the union of a and b with each record once
UnionByRecord(a, b, out) ==
  /\ \A i \in 1..Len(a \o b) : \E j \in 1..Len(out) : SameRecord((a \o b)[i], out[j])
  /\ \A j \in 1..Len(out) : \E i \in 1..Len(a \o b) : out[j] = (a \o b)[i] \/ SameRecord((a \o b)[i], out[j])
  /\ \A i, j \in 1..Len(out) : i # j => ~SameRecord(out[i], out[j])

\* C19: after a merge, every array other than estoque present on both sides
\* is the union of the two arrays in which elements sharing the identifier
\* found by the probe (id/uuid, else codigo/code/cod/sku, else document,
\* e-mail, phone or name) appear once.
C19_ArraysUnionedByProbe ==
  mg.phase = "merged" =>
    \A k \in SharedArrayKeys(mg.current.f, mg.incoming.f) :
      UnionByRecord(mg.current.f[k].a, mg.incoming.f[k].a, mg.db.f[k].a)

(***************************************************************************)
(* Sync path                                                               *)
(***************************************************************************)
\* the newest snapshot is one of db
SnapshotOf(db) == pm'.snapshots # <<>> /\ pm'.snapshots[1].data = db

\* C20: a successful mergeFromServer has read the local database through
\* get(), and leaves the canonical key so that get() returns the normalised
\* merged database, of which the newest snapshot is a copy.
C20_SyncThroughPersistenceManager ==
  [][last'.op = "sync.mergeFromServer" /\ last'.ok =>
       /\ mg'.local = asJson(dbGet(store, pm, "none").db)
       /\ dbGet(store', pm', "none").db = normalizeDB(asDb(mg'.db))
       /\ SnapshotOf(normalizeDB(asDb(mg'.db)))]_vars

(***************************************************************************)
(* Server revisions                                                        *)
(***************************************************************************)
\* C21: whenever a save of a tenant succeeds, the rev it returns is one more
\* than the rev of the record stored for that tenant just before (0 when
\* there is none), whatever other requests ran in between.
C21_RevIncrementsByOne ==
  [][\A r \in Requests :
       srv.reqs[r].pc = "writing" /\ srv'.reqs[r].pc = "done" =>
         srv'.reqs[r].rev = storedRev(srv.kv, srv.reqs[r].tenant) + 1]_vars

(***************************************************************************)
(* Validation                                                              *)
(***************************************************************************)
HasArray(db, k) == k \in DOMAIN db.f /\ db.f[k].t = "array"

HasObject(db, k) == k \in DOMAIN db.f /\ db.f[k].t = "object"

\* a non-object input is replaced by a fresh default database, with a warning
NonObjectReplaced(x, out) ==
  x.t # "object" => out.db = defaultJson /\ Len(out.warnings) >= 1

StockOf(db) ==
  IF db.t = "object" /\ "estoque" \in DOMAIN db.f /\ db.f.estoque.t = "array"
    THEN db.f.estoque.a ELSE <<>>

\* a whole number that is not negative
WholeNotNegative(v) == v.t = "number" /\ v.h % 2 = 0 /\ v.h >= 0

\* the code a warning about product p names
NamedCode(p) == Trim(asStr(Field(p.f, "cod")))

Warned(out, what, p) ==
  \E n \in 1..Len(out.warnings) :
    /\ out.warnings[n].what = what
    /\ NamedCode(p) # <<>> => out.warnings[n].named = NamedCode(p)

\* product p, found in the input, became q: field k with its warning
AmountRight(out, p, q, k, what, negative) ==
  /\ WholeNotNegative(q.f[k])
  /\ negative => Warned(out, what, p)
  /\ WholeNotNegative(Field(p.f, k)) => q.f[k] = p.f[k]

C24_ProductCodesUnique ==
  px.phase = "normalized" =>
    \A n, m \in 1..Len(StockOf(px.out.db)) :
      (/\ n # m
       /\ StockOf(px.out.db)[n].t = "object"
       /\ StockOf(px.out.db)[m].t = "object")
        => StockOf(px.out.db)[n].f.cod # StockOf(px.out.db)[m].f.cod

\* the warnings that report a corrected product or sale
Corrections == {"estoque_negativo", "preco_negativo", "custo_negativo", "total_negativo"}

\* C25: with the clock held, normalizeDB applied to its own result returns
\* that result field for field, and reports no product or sale correction.
C25_NormalizeFixedPoint ==
  px.phase = "twice" =>
    /\ px.again.db = px.out.db
    /\ \A n \in 1..Len(px.again.warnings) : px.again.warnings[n].what \notin Corrections

\* C25 witness: a database whose first normalisation corrected something
\* has been normalised twice.
C25_Witness ==
  /\ px.phase = "twice"
  /\ px.x.t = "object"
  /\ px.out.db # px.x
  /\ \E n \in 1..Len(px.out.warnings) : px.out.warnings[n].what \in Corrections


(***************************************************************************)
(* schema.js migrate: the database is brought from one schema version to   *)
(* another, and the result is migrated again at the target version         *)
(***************************************************************************)
MaxVersion == 2

\* v && typeof v === 'object' (an array passes, null does not)
typeofObject(v) == v.t \in {"object", "array"}

\* the named properties of an object, or those set on an array
propsOf(v) == IF "f" \in DOMAIN v THEN v.f ELSE <<>>

\* the same object or array with its named properties assigned
withProps(v, f) == IF v.t = "array" THEN [t |-> "array", a |-> v.a, f |-> f] ELSE Obj(f)

\* cur.meta with createdAt kept when truthy, updatedAt set to the clock
migratedMeta(m) ==
  withProps(m,
    [k \in (DOMAIN propsOf(m)) \cup {"createdAt", "updatedAt"} |->
       CASE k = "createdAt" -> orNow(Field(propsOf(m), "createdAt"))
         [] k = "updatedAt" -> NowIso
         [] OTHER -> propsOf(m)[k]])

\* cur.caixa with movimentos and aberturas made arrays
migratedCaixa(c) ==
  withProps(c,
    [k \in (DOMAIN propsOf(c)) \cup {"movimentos", "aberturas"} |->
       IF k \in {"movimentos", "aberturas"}
       THEN arrayValue(Field(propsOf(c), k))
       ELSE propsOf(c)[k]])

\* cur.caixa when it is an object, else the closed empty cashier
caixaOr(c) ==
  IF typeofObject(c)
  THEN c
  ELSE Obj([aberto |-> Bool(FALSE), movimentos |-> Arr(<<>>), aberturas |-> Arr(<<>>)])

\* v when it is an object, else {}
objectOrEmpty(v) == IF typeofObject(v) THEN v ELSE Obj(<<>>)

\* the step v0 -> v1 on an object cur
ensureKeys(cur) ==
  withProps(cur,
    [k \in (DOMAIN propsOf(cur))
         \cup {"schemaVersion", "meta", "users", "settings", "estoque", "vendas", "caixa",
               "devedores", "auditLog"} |->
       CASE k = "schemaVersion" -> IntVal(1)
         [] k = "meta" -> migratedMeta(objectOrEmpty(Field(propsOf(cur), "meta")))
         [] k = "settings" -> objectOrEmpty(Field(propsOf(cur), "settings"))
         [] k = "caixa" -> migratedCaixa(caixaOr(Field(propsOf(cur), "caixa")))
         [] k \in {"users", "estoque", "vendas", "devedores", "auditLog"} ->
              arrayValue(Field(propsOf(cur), k))
         [] OTHER -> propsOf(cur)[k]])

\* the entry the step v0 -> v1 pushes on report.migrations
migrationEntry == [from |-> 0, to |-> 1, at |-> NowIso]

\* variant: the step v0 -> v1 leaves no entry
recorded_none(migrations, next) == migrations

\* report.migrations after the loop has passed the version next
recorded(migrations, next) ==
  IF next = 1 THEN Append(migrations, migrationEntry) ELSE migrations

\* cur after the loop has passed the version next
stepped(cur, next) == IF next = 1 THEN ensureKeys(objectOrEmpty(cur)) ELSE cur

\* while (v < toVersion) { ... v = next }
RECURSIVE migrateLoop(_, _, _, _)
migrateLoop(cur, v, toVersion, migrations) ==
  IF v < toVersion
  THEN migrateLoop(stepped(cur, v + 1), v + 1, toVersion, recorded(migrations, v + 1))
  ELSE [db |-> cur, migrations |-> migrations]

\* schema.migrate(db, fromVersion, toVersion, report); report.migrations is
\* passed and returned as a sequence (fromVersion || 0 is fromVersion for a
\* whole number)
migrate(db, fromVersion, toVersion, migrations) ==
  migrateLoop(IF Falsy(db) THEN Obj(<<>>) ELSE db, fromVersion, toVersion, migrations)

\* a database that is already at version 1
DbCurrent ==
  Obj([schemaVersion |-> IntVal(1), meta |-> Obj([createdAt |-> T0, updatedAt |-> T0]),
       users |-> Arr(<<>>), settings |-> Obj(<<>>), estoque |-> Arr(<<ProdOk>>),
       vendas |-> Arr(<<>>),
       caixa |-> Obj([aberto |-> Bool(TRUE), movimentos |-> Arr(<<>>), aberturas |-> Arr(<<>>)]),
       devedores |-> Arr(<<>>), auditLog |-> Arr(<<>>)])

\* a version-0 database with a cashier that has no lists and a meta of text
DbOld == Obj([estoque |-> Arr(<<ProdOk>>), caixa |-> Obj([aberto |-> Bool(TRUE)]),
              meta |-> S("x"), vendas |-> Null])

MigrateInputs ==
  {Null, Undefined, Str(<<>>), S("x"), IntVal(1), Arr(<<>>), Obj(<<>>), DbWrong, DbSales,
   DbCurrent, DbOld}

Versions == 0..MaxVersion

\* schema.migrate(db, v0, v1, report) with a fresh report
Migrate ==
  /\ px.phase = "given"
  /\ px' = [phase |-> "migrated", x |-> px.x, v0 |-> px.v0, v1 |-> px.v1,
            out |-> migrate(px.x, px.v0, px.v1, <<>>)]
  /\ last' = [op |-> "schema.migrate", ok |-> TRUE]
  /\ UNCHANGED <<store, inv, pm, mg, srv>>

\* schema.migrate(result, v1, v1, report) with the same report
MigrateAgain ==
  /\ px.phase = "migrated"
  /\ px' = [phase |-> "current", x |-> px.x, v0 |-> px.v0, v1 |-> px.v1, out |-> px.out,
            again |-> migrate(px.out.db, px.v1, px.v1, px.out.migrations)]
  /\ last' = [op |-> "schema.migrate", ok |-> TRUE]
  /\ UNCHANGED <<store, inv, pm, mg, srv>>

InitMigrate ==
  /\ store = Absent
  /\ pm = PmLoaded
  /\ inv = NoInventory
  /\ last = [op |-> "load", ok |-> TRUE]
  /\ mg = NoMerge
  /\ srv = NoServer
  /\ \E x \in MigrateInputs, v0 \in Versions, v1 \in Versions :
       /\ v0 <= v1
       /\ px = [phase |-> "given", x |-> x, v0 |-> v0, v1 |-> v1]

NextMigrate == Migrate \/ MigrateAgain

SpecMigrate == InitMigrate /\ [][NextMigrate]_vars

\* the entries owed for the versions v0 .. v1: one for each step the schema
\* defines (0 -> 1), in increasing order
StepsOwed(v0, v1) == IF v0 < 1 /\ 1 <= v1 THEN <<[from |-> 0, to |-> 1]>> ELSE <<>>

\* the {from, to} part of the entries of report.migrations, each with its time
StepsOf(migrations) ==
  [n \in 1..Len(migrations) |-> [from |-> migrations[n].from, to |-> migrations[n].to]]

\* C26: migrating the result of migrate(db, v0, v1) again at v1 returns the
\* same database and appends nothing to report.migrations, and the first
\* migration has recorded exactly one {from, to, at} entry for each step it
\* applied, in increasing version order
C26_MigrateIdempotentAtTarget ==
  /\ px.phase \in {"migrated", "current"} =>
       /\ StepsOf(px.out.migrations) = StepsOwed(px.v0, px.v1)
       /\ \A n \in 1..Len(px.out.migrations) : px.out.migrations[n].at = NowIso
       /\ px.v0 = px.v1 => px.out.db = (IF Falsy(px.x) THEN Obj(<<>>) ELSE px.x)
  /\ px.phase = "current" =>
       /\ px.again.db = px.out.db
       /\ px.again.migrations = px.out.migrations

\* a version-0 database has been migrated to version 1, which changed it and
\* left one entry, and has been migrated again at version 1
C26_Witness ==
  /\ px.phase = "current"
  /\ px.x = DbOld /\ px.v0 = 0 /\ px.v1 = 1
  /\ px.out.db # px.x
  /\ Len(px.out.migrations) = 1

(***************************************************************************)
(* Backup text: validate.checksum32, JSON.stringify and JSON.parse over    *)
(* sequences of characters                                                 *)
(***************************************************************************)
\* the printable characters, in code order from 32 (the grave accent, which a
\* string cannot hold, is written GRAVE)
Ascii ==
  <<" ", "!", "\"", "#", "$", "%", "&", "'", "(", ")", "*", "+", ",", "-", ".", "/",
    "0", "1", "2", "3", "4", "5", "6", "7", "8", "9", ":", ";", "<", "=", ">", "?",
    "@", "A", "B", "C", "D", "E", "F", "G", "H", "I", "J", "K", "L", "M", "N", "O",
    "P", "Q", "R", "S", "T", "U", "V", "W", "X", "Y", "Z", "[", "\\", "]", "^", "_",
    "GRAVE", "a", "b", "c", "d", "e", "f", "g", "h", "i", "j", "k", "l", "m", "n", "o",
    "p", "q", "r", "s", "t", "u", "v", "w", "x", "y", "z", "{", "|", "}", "~">>

\* the control characters JSON names: backspace, tab, line feed, form feed,
\* carriage return
Backspace == "BS"
Controls == <<Backspace, "\t", "\n", "\f", "\r">>
ControlCodes == <<8, 9, 10, 12, 13>>

\* str.charCodeAt(i)
charCodeAt ==
  [c \in {Ascii[n] : n \in 1..Len(Ascii)} \cup {Controls[n] : n \in 1..Len(Controls)} |->
     IF \E n \in 1..Len(Controls) : Controls[n] = c
     THEN ControlCodes[CHOOSE n \in 1..Len(Controls) : Controls[n] = c]
     ELSE 31 + (CHOOSE n \in 1..Len(Ascii) : Ascii[n] = c)]

\* a ^ b on non-negative whole numbers
RECURSIVE xor(_, _)
xor(a, b) ==
  IF a = 0 THEN b
  ELSE IF b = 0 THEN a
  ELSE 2 * xor(a \div 2, b \div 2) + ((a + b) % 2)

\* a 32-bit word as its upper and lower 16 bits
Word(hi, lo) == [hi |-> hi, lo |-> lo]

\* 2166136261 = 0x811C9DC5
OffsetBasis == Word(33052, 40389)

\* Math.imul(h ^ code, 16777619), with 16777619 = 2^24 + 403: the product
\* modulo 2^32, computed on the halves lo ^ code and hi
imul(hi, lo) ==
  Word((hi * 403 + ((lo * 403) \div 65536) + (lo % 256) * 256) % 65536, (lo * 403) % 65536)

\* variant: the multiplication comes before the exclusive or, as in FNV-1
mixed_fnv1(h, code) == [imul(h.hi, h.lo) EXCEPT !.lo = xor(@, code)]

\* h ^= str.charCodeAt(i); h = Math.imul(h, 16777619)
mixed(h, code) == imul(h.hi, xor(h.lo, code))

HexDigits == <<"0", "1", "2", "3", "4", "5", "6", "7", "8", "9", "a", "b", "c", "d", "e", "f">>

\* the four hexadecimal digits of a 16-bit number
hex4(n) ==
  <<HexDigits[(n \div 4096) + 1], HexDigits[((n \div 256) % 16) + 1],
    HexDigits[((n \div 16) % 16) + 1], HexDigits[(n % 16) + 1]>>

\* the loop of checksum32 over str[a..b], from the value h: the range is
\* taken in two halves, one after the other (h is read first, so that the
\* first half is computed before the second is entered)
RECURSIVE hashRange(_, _, _, _)
hashRange(str, a, b, h) ==
  IF h.hi < 0 \/ a > b THEN h
  ELSE IF a = b THEN mixed(h, charCodeAt[str[a]])
  ELSE hashRange(str, ((a + b) \div 2) + 1, b, hashRange(str, a, (a + b) \div 2, h))

\* validate.checksum32(str): eight hexadecimal digits
checksum32(str) ==
  hex4(hashRange(str, 1, Len(str), OffsetBasis).hi)
    \o hex4(hashRange(str, 1, Len(str), OffsetBasis).lo)

\* an object as it is written or parsed: keys holds its property names, each
\* a sequence of characters, in own-property order, and f their values
EmptyObject == [t |-> "object", keys |-> <<>>, f |-> <<>>]

\* a number that is neither whole nor a half: (-)n * 10^e, n not ending in 0
Decimal(neg, n, e) == [t |-> "decimal", neg |-> neg, n |-> n, e |-> e]

RECURSIVE Repeat(_, _)
Repeat(c, n) == IF n <= 0 THEN <<>> ELSE <<c>> \o Repeat(c, n - 1)

\* Number::toString for the digits ds and the exponent e: the decimal point
\* stands after Len(ds) + e digits
pointText(ds, pt) ==
  IF Len(ds) <= pt /\ pt <= 21 THEN ds \o Repeat("0", pt - Len(ds))
  ELSE IF 0 < pt /\ pt <= 21 THEN SubSeq(ds, 1, pt) \o <<".">> \o SubSeq(ds, pt + 1, Len(ds))
  ELSE IF -6 < pt /\ pt <= 0 THEN <<"0", ".">> \o Repeat("0", -pt) \o ds
  ELSE <<Head(ds)>> \o (IF Len(ds) > 1 THEN <<".">> \o Tail(ds) ELSE <<>>)
         \o <<"e", IF pt - 1 < 0 THEN "-" ELSE "+">> \o NatChars(Abs(pt - 1))

\* n * 10^e with the trailing zeros of n moved into e
RECURSIVE shortest(_, _)
shortest(n, e) ==
  IF n # 0 /\ n % 10 = 0 THEN shortest(n \div 10, e + 1) ELSE [n |-> n, e |-> e]

decimalText(neg, d) ==
  IF d.n = 0 THEN <<"0">>
  ELSE (IF neg THEN <<"-">> ELSE <<>>) \o pointText(NatChars(d.n), Len(NatChars(d.n)) + d.e)

\* the text of a finite number
numberText(v) ==
  IF v.t = "decimal" THEN decimalText(v.neg, shortest(v.n, v.e))
  ELSE IF v.h % 2 = 0 THEN decimalText(v.h < 0, shortest(Abs(v.h) \div 2, 0))
  ELSE decimalText(v.h < 0, shortest(Abs(v.h) * 5, -1))

\* the two-character escapes of JSON text, and the characters they stand for
EscapeLetters == <<"\"", "\\", "b", "t", "n", "f", "r">>
EscapedChars == <<"\"", "\\", Backspace, "\t", "\n", "\f", "\r">>

IsEscaped(c) == \E n \in 1..Len(EscapedChars) : EscapedChars[n] = c

quoteChar(c) ==
  IF IsEscaped(c)
  THEN <<"\\", EscapeLetters[CHOOSE n \in 1..Len(EscapedChars) : EscapedChars[n] = c]>>
  ELSE <<c>>

RECURSIVE quoteChars(_, _)
quoteChars(s, i) == IF i > Len(s) THEN <<>> ELSE quoteChar(s[i]) \o quoteChars(s, i + 1)

\* QuoteJSONString
quote(s) == <<"\"">> \o quoteChars(s, 1) \o <<"\"">>

\* the line break and indentation before an entry at the given depth
gap(pretty, level) == IF pretty THEN <<"\n">> \o Repeat(" ", 2 * level) ELSE <<>>

\* the keys JSON.stringify writes: those whose value is not undefined
shownKeys(v) == SelectSeq(v.keys, LAMBDA k : v.f[k].t # "undefined")

RECURSIVE stringifyAt(_, _, _)
RECURSIVE elements(_, _, _, _)
RECURSIVE members(_, _, _, _, _)

elements(a, n, pretty, level) ==
  IF n > Len(a) THEN <<>>
  ELSE (IF n > 1 THEN <<",">> ELSE <<>>) \o gap(pretty, level)
         \o stringifyAt(a[n], pretty, level) \o elements(a, n + 1, pretty, level)

members(f, ks, n, pretty, level) ==
  IF n > Len(ks) THEN <<>>
  ELSE (IF n > 1 THEN <<",">> ELSE <<>>) \o gap(pretty, level)
         \o quote(ks[n]) \o (IF pretty THEN <<":", " ">> ELSE <<":">>)
         \o stringifyAt(f[ks[n]], pretty, level) \o members(f, ks, n + 1, pretty, level)

\* SerializeJSONProperty at a nesting depth
stringifyAt(v, pretty, level) ==
  CASE v.t \in {"null", "nan", "undefined"} -> <<"n", "u", "l", "l">>
    [] v.t = "boolean" -> IF v.b THEN <<"t", "r", "u", "e">> ELSE <<"f", "a", "l", "s", "e">>
    [] v.t \in {"number", "decimal"} -> numberText(v)
    [] v.t = "string" -> quote(v.s)
    [] v.t = "array" ->
         IF v.a = <<>> THEN <<"[", "]">>
         ELSE <<"[">> \o elements(v.a, 1, pretty, level + 1) \o gap(pretty, level) \o <<"]">>
    [] v.t = "object" ->
         IF shownKeys(v) = <<>> THEN <<"{", "}">>
         ELSE <<"{">> \o members(v.f, shownKeys(v), 1, pretty, level + 1)
                \o gap(pretty, level) \o <<"}">>

\* JSON.stringify(v, null, pretty ? 2 : 0)
stringify(v, pretty) == stringifyAt(v, pretty, 0)

\* the outcome of reading a value: a SyntaxError, or the value and the index
\* after it
Fail == [ok |-> FALSE]
Got(v, i) == [ok |-> TRUE, v |-> v, i |-> i]

IsWhite(c) == c \in {" ", "\t", "\n", "\r"}

RECURSIVE skipWhite(_, _)
skipWhite(t, i) == IF i <= Len(t) /\ IsWhite(t[i]) THEN skipWhite(t, i + 1) ELSE i

\* the text holds the character c at index i
Has(t, i, c) == 0 < i /\ i <= Len(t) /\ t[i] = c

HexCapitals == <<"0", "1", "2", "3", "4", "5", "6", "7", "8", "9", "A", "B", "C", "D", "E", "F">>

IsHex(c) == \E n \in 1..16 : HexDigits[n] = c \/ HexCapitals[n] = c

hexValue(c) == (CHOOSE n \in 1..16 : HexDigits[n] = c \/ HexCapitals[n] = c) - 1

\* the character \uXXXX stands for
unicodeChar(t, i) ==
  CHOOSE c \in DOMAIN charCodeAt :
    charCodeAt[c] = hexValue(t[i]) * 4096 + hexValue(t[i + 1]) * 256
                      + hexValue(t[i + 2]) * 16 + hexValue(t[i + 3])

\* the character a backslash and the letter c stand for
unescaped(c) ==
  IF c = "/" THEN "/" ELSE EscapedChars[CHOOSE n \in 1..Len(EscapeLetters) : EscapeLetters[n] = c]

IsEscapeLetter(c) == c = "/" \/ \E n \in 1..Len(EscapeLetters) : EscapeLetters[n] = c

\* a JSON string from the character after its opening quote
RECURSIVE stringFrom(_, _, _)
stringFrom(t, i, acc) ==
  IF i > Len(t) THEN Fail
  ELSE IF t[i] = "\"" THEN Got(Str(acc), i + 1)
  ELSE IF t[i] = "\\"
  THEN IF i + 1 <= Len(t) /\ IsEscapeLetter(t[i + 1])
       THEN stringFrom(t, i + 2, Append(acc, unescaped(t[i + 1])))
       ELSE IF Has(t, i + 1, "u") /\ i + 5 <= Len(t) /\ \A n \in 2..5 : IsHex(t[i + n])
       THEN stringFrom(t, i + 6, Append(acc, unicodeChar(t, i + 2)))
       ELSE Fail
  ELSE IF charCodeAt[t[i]] < 32 THEN Fail
  ELSE stringFrom(t, i + 1, Append(acc, t[i]))

RECURSIVE digitsEnd(_, _)
digitsEnd(t, i) == IF i <= Len(t) /\ IsDigit(t[i]) THEN digitsEnd(t, i + 1) ELSE i

\* the index after the integer part that starts at i, or 0 when there is none
intEnd(t, i) ==
  IF Has(t, i, "0") THEN i + 1
  ELSE IF i <= Len(t) /\ IsDigit(t[i]) THEN digitsEnd(t, i + 1)
  ELSE 0

\* the index after the optional fraction that starts at j, or 0
fracEnd(t, j) ==
  IF j = 0 THEN 0
  ELSE IF Has(t, j, ".") THEN (IF digitsEnd(t, j + 1) > j + 1 THEN digitsEnd(t, j + 1) ELSE 0)
  ELSE j

\* the index of the first digit of the exponent whose letter is at k
expDigits(t, k) == IF Has(t, k + 1, "+") \/ Has(t, k + 1, "-") THEN k + 2 ELSE k + 1

\* the index after the optional exponent that starts at k, or 0
expEnd(t, k) ==
  IF k = 0 THEN 0
  ELSE IF Has(t, k, "e") \/ Has(t, k, "E")
  THEN (IF digitsEnd(t, expDigits(t, k)) > expDigits(t, k)
        THEN digitsEnd(t, expDigits(t, k)) ELSE 0)
  ELSE k

\* the largest whole number kept in halves
MaxWhole == 99999999

RECURSIVE Pow10(_)
Pow10(e) == IF e <= 0 THEN 1 ELSE 10 * Pow10(e - 1)

\* the number (-)n * 10^e, for d = shortest(n, e)
numberOf(neg, d) ==
  IF d.n = 0 THEN Num(0)
  ELSE IF d.e >= 0 /\ d.e <= 7 /\ d.n <= MaxWhole \div Pow10(d.e)
  THEN IntVal((IF neg THEN -1 ELSE 1) * d.n * Pow10(d.e))
  ELSE IF d.e = -1 /\ d.n % 5 = 0 /\ d.n <= MaxWhole
  THEN Num((IF neg THEN -1 ELSE 1) * (d.n \div 5))
  ELSE Decimal(neg, d.n, d.e)

\* the exponent written between k and z
exponentOf(t, k, z) ==
  IF z = k THEN 0
  ELSE (IF Has(t, k + 1, "-") THEN -1 ELSE 1) * NatOf(SubSeq(t, expDigits(t, k), z - 1))

\* the number whose integer part is t[a..b-1], fraction t[b+1..c-1] and
\* exponent t[c..z-1]
numberFrom(t, neg, a, b, c, z) ==
  IF z = 0 THEN Fail
  ELSE Got(numberOf(neg, shortest(NatOf(SubSeq(t, a, b - 1) \o SubSeq(t, b + 1, c - 1)),
                                  exponentOf(t, c, z) - (IF c > b THEN c - b - 1 ELSE 0))), z)

unsignedAt(t, neg, a) ==
  numberFrom(t, neg, a, intEnd(t, a), fracEnd(t, intEnd(t, a)),
             expEnd(t, fracEnd(t, intEnd(t, a))))

\* a JSON number at i
numberAt(t, i) == IF Has(t, i, "-") THEN unsignedAt(t, TRUE, i + 1) ELSE unsignedAt(t, FALSE, i)

\* the word w stands at i
literalAt(t, i, w, v) ==
  IF i + Len(w) - 1 <= Len(t) /\ SubSeq(t, i, i + Len(w) - 1) = w THEN Got(v, i + Len(w)) ELSE Fail

\* an array index as a property key: "0", or digits without a leading zero,
\* below 2^32 - 1
IsIndexKey(k) ==
  /\ k # <<>>
  /\ \A n \in 1..Len(k) : IsDigit(k[n])
  /\ k[1] # "0" \/ Len(k) = 1
  /\ \/ Len(k) <= 9
     \/ /\ Len(k) = 10
        /\ \/ NatOf(SubSeq(k, 1, 5)) < 42949
           \/ NatOf(SubSeq(k, 1, 5)) = 42949 /\ NatOf(SubSeq(k, 6, 10)) <= 67294

\* the index key a is numerically below the index key b
IndexBelow(a, b) ==
  \/ Len(a) < Len(b)
  \/ /\ Len(a) = Len(b)
     /\ \E n \in 1..Len(a) :
          /\ SubSeq(a, 1, n - 1) = SubSeq(b, 1, n - 1)
          /\ NatOf(<<a[n]>>) < NatOf(<<b[n]>>)

\* how many of the keys are index keys below k
indexKeysBelow(keys, k) ==
  Cardinality({n \in 1..Len(keys) : IsIndexKey(keys[n]) /\ IndexBelow(keys[n], k)})

\* the own-property order after a new key: index keys ascending first, the
\* others in the order they were created
withKey(keys, k) ==
  IF IsIndexKey(k)
  THEN SubSeq(keys, 1, indexKeysBelow(keys, k)) \o <<k>>
         \o SubSeq(keys, indexKeysBelow(keys, k) + 1, Len(keys))
  ELSE Append(keys, k)

\* obj[key] = v
setProp(obj, key, v) ==
  [t |-> "object",
   keys |-> IF key \in DOMAIN obj.f THEN obj.keys ELSE withKey(obj.keys, key),
   f |-> Put(obj.f, key, v)]

\* the object literal whose properties are the <<key, value>> pairs of p
RECURSIVE recFrom(_, _, _)
recFrom(p, n, obj) ==
  IF n > Len(p) THEN obj ELSE recFrom(p, n + 1, setProp(obj, p[n][1], p[n][2]))

Rec(p) == recFrom(p, 1, EmptyObject)

RECURSIVE valueAt(_, _)
RECURSIVE afterElement(_, _, _)
RECURSIVE nextElement(_, _, _)
RECURSIVE memberAt(_, _, _)
RECURSIVE afterKey(_, _, _)
RECURSIVE colonAt(_, _, _, _)
RECURSIVE afterMember(_, _, _, _)
RECURSIVE nextMember(_, _, _)

afterElement(t, r, acc) ==
  IF ~r.ok THEN Fail ELSE nextElement(t, skipWhite(t, r.i), Append(acc, r.v))

nextElement(t, j, acc) ==
  IF Has(t, j, ",") THEN afterElement(t, valueAt(t, skipWhite(t, j + 1)), acc)
  ELSE IF Has(t, j, "]") THEN Got(Arr(acc), j + 1)
  ELSE Fail

memberAt(t, i, obj) ==
  IF Has(t, i, "\"") THEN afterKey(t, stringFrom(t, i + 1, <<>>), obj) ELSE Fail

afterKey(t, k, obj) == IF ~k.ok THEN Fail ELSE colonAt(t, skipWhite(t, k.i), k.v.s, obj)

colonAt(t, j, key, obj) ==
  IF Has(t, j, ":") THEN afterMember(t, valueAt(t, skipWhite(t, j + 1)), key, obj) ELSE Fail

afterMember(t, r, key, obj) ==
  IF ~r.ok THEN Fail ELSE nextMember(t, skipWhite(t, r.i), setProp(obj, key, r.v))

nextMember(t, j, obj) ==
  IF Has(t, j, ",") THEN memberAt(t, skipWhite(t, j + 1), obj)
  ELSE IF Has(t, j, "}") THEN Got(obj, j + 1)
  ELSE Fail

\* a JSON value at i, where no white space stands
valueAt(t, i) ==
  IF i > Len(t) THEN Fail
  ELSE IF t[i] = "{"
  THEN (IF Has(t, skipWhite(t, i + 1), "}")
        THEN Got(EmptyObject, skipWhite(t, i + 1) + 1)
        ELSE memberAt(t, skipWhite(t, i + 1), EmptyObject))
  ELSE IF t[i] = "["
  THEN (IF Has(t, skipWhite(t, i + 1), "]")
        THEN Got(Arr(<<>>), skipWhite(t, i + 1) + 1)
        ELSE afterElement(t, valueAt(t, skipWhite(t, i + 1)), <<>>))
  ELSE IF t[i] = "\"" THEN stringFrom(t, i + 1, <<>>)
  ELSE IF t[i] = "t" THEN literalAt(t, i, <<"t", "r", "u", "e">>, Bool(TRUE))
  ELSE IF t[i] = "f" THEN literalAt(t, i, <<"f", "a", "l", "s", "e">>, Bool(FALSE))
  ELSE IF t[i] = "n" THEN literalAt(t, i, <<"n", "u", "l", "l">>, Null)
  ELSE numberAt(t, i)

\* the whole text is one value between white space
whole(t, r) == IF r.ok /\ skipWhite(t, r.i) > Len(t) THEN r ELSE Fail

\* JSON.parse(text): [ok |-> FALSE] stands for the SyntaxError thrown
parse(t) == whole(t, valueAt(t, skipWhite(t, 1)))

(***************************************************************************)
(* Backup export and preview                                               *)
(***************************************************************************)
kMeta == <<"_", "_", "m", "e", "t", "a">>
kType == <<"t", "y", "p", "e">>
kSchemaVersion == <<"s", "c", "h", "e", "m", "a", "V", "e", "r", "s", "i", "o", "n">>
kExportedAt == <<"e", "x", "p", "o", "r", "t", "e", "d", "A", "t">>
kChecksum32 == <<"c", "h", "e", "c", "k", "s", "u", "m", "3", "2">>
kDb == <<"d", "b">>
kEstoque == <<"e", "s", "t", "o", "q", "u", "e">>
kVendas == <<"v", "e", "n", "d", "a", "s">>
kDevedores == <<"d", "e", "v", "e", "d", "o", "r", "e", "s">>
kAuditLog == <<"a", "u", "d", "i", "t", "L", "o", "g">>
kCod == <<"c", "o", "d">>
kQtd == <<"q", "t", "d">>

ErpBackup == Str(<<"e", "r", "p", "_", "b", "a", "c", "k", "u", "p">>)

\* v[k] for a value of any type: only an object holds named properties
prop(v, k) == IF v.t = "object" THEN Field(v.f, k) ELSE Undefined

\* delete obj[k]
removeProp(obj, k) ==
  [t |-> "object",
   keys |-> SelectSeq(obj.keys, LAMBDA x : x # k),
   f |-> [x \in (DOMAIN obj.f) \ {k} |-> obj.f[x]]]

\* db?.schemaVersion || schema.SCHEMA_VERSION
schemaVersionOr(db) ==
  IF Falsy(prop(db, kSchemaVersion)) THEN IntVal(SCHEMA_VERSION) ELSE prop(db, kSchemaVersion)

\* the payload before the checksum is added
payloadOf(db) ==
  Rec(<< <<kMeta, Rec(<< <<kType, ErpBackup>>,
                         <<kSchemaVersion, schemaVersionOr(db)>>,
                         <<kExportedAt, NowIso>> >>)>>,
         <<kDb, db>> >>)

\* payload.__meta.checksum32 = checksum
withChecksum(payload, checksum) ==
  setProp(payload, kMeta, setProp(payload.f[kMeta], kChecksum32, Str(checksum)))

\* variant: the checksum is taken over the text as it is written out
checksumText_written(payload, pretty) == stringify(payload, pretty)

\* the text exportDB takes the checksum of: JSON.stringify(payload, null, 0)
checksumText(payload, pretty) == stringify(payload, FALSE)

\* exportDB(db, {pretty})
exportDB(db, pretty) ==
  stringify(withChecksum(payloadOf(db), checksum32(checksumText(payloadOf(db), pretty))),
            pretty)

SyntaxError == "SyntaxError"
NotJson == "Arquivo nao e JSON valido."
NoDb == "Arquivo nao contem campo db."
MetaMissing == "Meta ausente ou tipo desconhecido."
ChecksumMismatch == "Checksum nao confere (arquivo pode ter sido alterado)."

\* the catch block of previewImport: the message becomes the only warning
rejected(message) == [ok |-> FALSE, warnings |-> <<message>>, summary |-> <<>>]

metaWarning(obj) ==
  IF Falsy(prop(obj, kMeta)) \/ prop(prop(obj, kMeta), kType) # ErpBackup
  THEN <<MetaMissing>>
  ELSE <<>>

\* the clone of previewImport with __meta.checksum32 deleted
withoutChecksum(clone) ==
  IF Falsy(prop(clone, kMeta)) THEN clone
  ELSE IF prop(clone, kMeta).t # "object" THEN clone
  ELSE setProp(clone, kMeta, removeProp(clone.f[kMeta], kChecksum32))

\* variant: only the last character counts
recomputed_short(obj) ==
  hex4(0) \o hex4(charCodeAt[stringify(withoutChecksum(parse(stringify(obj, FALSE)).v), FALSE)[
     Len(stringify(withoutChecksum(parse(stringify(obj, FALSE)).v), FALSE))]])

\* the checksum previewImport computes of the parsed payload
recomputed(obj) ==
  checksum32(stringify(withoutChecksum(parse(stringify(obj, FALSE)).v), FALSE))

checksumWarning(obj) ==
  IF Falsy(prop(obj, kMeta)) \/ Falsy(prop(prop(obj, kMeta), kChecksum32)) THEN <<>>
  ELSE IF Str(recomputed(obj)) # prop(prop(obj, kMeta), kChecksum32) THEN <<ChecksumMismatch>>
  ELSE <<>>

\* Array.isArray(db[k]) ? db[k].length : 0
countOf(db, k) == IF isArray(prop(db, k)) THEN Len(prop(db, k).a) ELSE 0

\* x ?? null, x || null
orNull(x, nullish) == IF nullish THEN Null ELSE x

summaryOf(obj) ==
  [schemaVersion |-> orNull(prop(prop(obj, kDb), kSchemaVersion),
                            prop(prop(obj, kDb), kSchemaVersion).t \in {"undefined", "null"}),
   counts |-> [estoque |-> countOf(prop(obj, kDb), kEstoque),
               vendas |-> countOf(prop(obj, kDb), kVendas),
               devedores |-> countOf(prop(obj, kDb), kDevedores),
               auditLog |-> countOf(prop(obj, kDb), kAuditLog)],
   exportedAt |-> orNull(prop(prop(obj, kMeta), kExportedAt),
                         Falsy(prop(prop(obj, kMeta), kExportedAt)))]

previewParsed(r) ==
  IF ~r.ok THEN rejected(SyntaxError)
  ELSE IF Falsy(r.v) \/ ~typeofObject(r.v) THEN rejected(NotJson)
  ELSE IF Falsy(prop(r.v, kDb)) \/ ~typeofObject(prop(r.v, kDb)) THEN rejected(NoDb)
  ELSE [ok |-> TRUE,
        warnings |-> metaWarning(r.v) \o checksumWarning(r.v),
        summary |-> <<summaryOf(r.v)>>]

\* previewImport(jsonString)
previewImport(text) == previewParsed(parse(text))

(***************************************************************************)
(* A database is exported, one character of the text may be changed, and   *)
(* the text is previewed                                                   *)
(***************************************************************************)
JsonSmall ==
  Rec(<< <<kSchemaVersion, IntVal(1)>>,
         <<kEstoque, Arr(<<Rec(<< <<kCod, S("X")>>, <<kQtd, IntVal(100)>> >>)>>)>>,
         <<kVendas, Arr(<<>>)>> >>)

\* a database with an absent value, a half, a quote inside a text, a
\* collection of the wrong type and an index key
JsonOdd ==
  Rec(<< <<kCod, Str(<<"a", "\"">>)>>,
         <<kQtd, Num(-3)>>,
         <<kVendas, Undefined>>,
         <<kEstoque, Bool(TRUE)>>,
         <<kDevedores, Arr(<<Null, Undefined>>)>>,
         <<<<"7">>, EmptyObject>> >>)

ExportInputs == {EmptyObject, Arr(<<>>), JsonSmall, JsonOdd}

\* the characters one character of the text may be changed to
Replacements == {"\"", "\\", " ", "\n", "0", "1", "e", ".", ",", "}", "a"}

\* the closing of the payload after the db value
closing(pretty) == gap(pretty, 0) \o <<"}">>

\* the index of the exported text at which the serialized db ends
dbEnd(db, pretty) == Len(exportDB(db, pretty)) - Len(closing(pretty))

\* exportDB(db, {pretty}); from and to bound the serialized db in the text
ExportDb ==
  /\ px.phase = "given"
  /\ px' = [phase |-> "exported", db |-> px.db, pretty |-> px.pretty, at |-> 0,
            text |-> exportDB(px.db, px.pretty),
            from |-> dbEnd(px.db, px.pretty) - Len(stringifyAt(px.db, px.pretty, 1)) + 1,
            to |-> dbEnd(px.db, px.pretty)]
  /\ last' = [op |-> "backup.exportDB", ok |-> TRUE]
  /\ UNCHANGED <<store, inv, pm, mg, srv>>

\* the file is altered outside the program: the character at i, inside the
\* serialized db, becomes c
Tamper(i, c) ==
  /\ px.phase = "exported"
  /\ px.from <= i /\ i <= px.to
  /\ px.text[i] # c
  /\ px' = [px EXCEPT !.phase = "altered", !.at = i, !.text = [px.text EXCEPT ![i] = c]]
  /\ UNCHANGED <<store, inv, last, pm, mg, srv>>

\* previewImport(text)
PreviewImport ==
  /\ px.phase \in {"exported", "altered"}
  /\ px' = [phase |-> "previewed", db |-> px.db, pretty |-> px.pretty, at |-> px.at,
            text |-> px.text, from |-> px.from, to |-> px.to,
            res |-> previewImport(px.text)]
  /\ last' = [op |-> "backup.previewImport", ok |-> px'.res.ok]
  /\ UNCHANGED <<store, inv, pm, mg, srv>>

MaxTextLen == 300

InitBackup ==
  /\ store = Absent
  /\ pm = PmLoaded
  /\ inv = NoInventory
  /\ last = [op |-> "load", ok |-> TRUE]
  /\ mg = NoMerge
  /\ srv = NoServer
  /\ \E db \in ExportInputs, pretty \in BOOLEAN :
       px = [phase |-> "given", db |-> db, pretty |-> pretty]

NextBackup ==
  \/ ExportDb
  \/ \E i \in 1..MaxTextLen, c \in Replacements : Tamper(i, c)
  \/ PreviewImport

SpecBackup == InitBackup /\ [][NextBackup]_vars

HasWarning(res, w) == \E n \in 1..Len(res.warnings) : res.warnings[n] = w

\* the length of the collection k of the database, 0 when it is no array
LengthOf(db, k) ==
  IF db.t = "object" /\ k \in DOMAIN db.f /\ db.f[k].t = "array" THEN Len(db.f[k].a) ELSE 0

\* C27: previewing the unmodified text of exportDB(db, {pretty}), for either
\* value of pretty, returns ok:true with no checksum-mismatch warning and
\* with summary counts equal to the lengths of the collections of db
C27_ExportPreviewRoundTrip ==
  px.phase = "previewed" /\ px.at = 0 =>
    /\ px.res.ok
    /\ ~HasWarning(px.res, ChecksumMismatch)
    /\ px.res.summary[1].counts =
         [estoque |-> LengthOf(px.db, kEstoque), vendas |-> LengthOf(px.db, kVendas),
          devedores |-> LengthOf(px.db, kDevedores), auditLog |-> LengthOf(px.db, kAuditLog)]

\* a pretty-printed export of a database with one product has been
\* previewed unmodified
C27_Witness ==
  /\ px.phase = "previewed" /\ px.at = 0 /\ px.pretty
  /\ px.db = JsonSmall
  /\ px.res.ok /\ px.res.summary[1].counts.estoque = 1

\* the unformatted text exportDB took the checksum of
Exported == stringify(payloadOf(px.db), FALSE)

\* the unformatted text of what the previewed text parses to, without the
\* checksum
Reparsed == stringify(withoutChecksum(parse(px.text).v), FALSE)

\* two texts of one length that differ at exactly one index
OneCharApart(a, b) ==
  /\ Len(a) = Len(b)
  /\ Cardinality({n \in 1..Len(a) : a[n] # b[n]}) = 1

Altered == px.phase = "previewed" /\ px.at # 0

MergeNotSupported == "merge=true ainda nao implementado nesta versao."
InvalidBackup == "Backup invalido."

\* the database of a backup as the ledgers hold it: its products by code
\* and whole quantity, every other collection as schema.migrate and
\* validate.normalizeDB make it when it is missing
ledgerOf(db) ==
  [defaultDB EXCEPT
     !.estoque = [n \in 1..countOf(db, kEstoque) |->
                    [cod |-> asStr(prop(prop(db, kEstoque).a[n], kCod)),
                     qtd |-> asInt(prop(prop(db, kEstoque).a[n], kQtd), 0)]]]

\* the catch block of importDB, and the early return for merge
notImported(s, p, message) == [ok |-> FALSE, message |-> message, store |-> s, pm |-> p]

\* importDB returns ok:true whatever safeSave returned
imported(saved) == [ok |-> TRUE, message |-> "", store |-> saved.store, pm |-> saved.pm]

importParsed(s, p, r, fault) ==
  IF ~r.ok THEN notImported(s, p, SyntaxError)
  ELSE IF Falsy(r.v) \/ ~typeofObject(r.v) \/ Falsy(prop(r.v, kDb))
  THEN notImported(s, p, InvalidBackup)
  ELSE imported(dbSafeSave(s, p, normalizeDB(ledgerOf(prop(r.v, kDb))), FALSE, FALSE, fault))

\* variant: the merge option is looked at after the import is done
importDB_mergeLate(s, p, text, merge, fault) ==
  IF merge
  THEN [importParsed(s, p, parse(text), fault) EXCEPT !.ok = FALSE, !.message = MergeNotSupported]
  ELSE importParsed(s, p, parse(text), fault)

\* backup.importDB(jsonString, {merge}) on stored value s; fault is the
\* fault met by the save
importDB(s, p, text, merge, fault) ==
  IF merge THEN notImported(s, p, MergeNotSupported)
  ELSE importParsed(s, p, parse(text), fault)

\* recovery.enable(reason)
recoveryEnable(p, reason) == setRecovery(p, reason)

\* recovery.disable()
recoveryDisable(p) == [p EXCEPT !.recovery = [active |-> FALSE, reason |-> ""]]

\* a backup whose product has a blank after its code and a negative quantity
JsonNeg ==
  Rec(<< <<kEstoque, Arr(<<Rec(<< <<kCod, Str(<<"X", " ">>)>>, <<kQtd, IntVal(-1)>> >>)>>)>> >>)

\* the texts handed to previewImport and importDB: two exports, an export
\* cut short, an object without db, and no JSON at all
ImportTexts ==
  {exportDB(JsonNeg, FALSE),
   exportDB(JsonNeg, TRUE),
   SubSeq(exportDB(JsonNeg, FALSE), 1, Len(exportDB(JsonNeg, FALSE)) - 1),
   <<"{", "}">>,
   <<"x">>}

\* the effect of previewImport, whose result is res
Previews(res) ==
  /\ last' = [op |-> "backup.previewImport", ok |-> res.ok]
  /\ UNCHANGED <<store, inv, pm, mg, srv, px>>

BackupPreviewImport(text) == Previews(previewImport(text))

\* the effect of importDB, whose result is r
Imports(r, merge) ==
  Persists(r, [op |-> "backup.importDB", ok |-> r.ok, merge |-> merge, message |-> r.message])

BackupImportDB(text, merge, fault) == Imports(importDB(store, pm, text, merge, fault), merge)

RecoveryEnable(reason) ==
  /\ pm' = recoveryEnable(pm, reason)
  /\ last' = [op |-> "recovery.enable", ok |-> TRUE]
  /\ UNCHANGED <<store, inv, mg, srv, px>>

RecoveryDisable ==
  /\ pm' = recoveryDisable(pm)
  /\ last' = [op |-> "recovery.disable", ok |-> TRUE]
  /\ UNCHANGED <<store, inv, mg, srv, px>>

\* the canonical key holds a database
HoldsDb == store \notin {Absent, EmptyText, CorruptText}

\* the operations of the persistence manager, of the backup module and of
\* the cashier, and the recovery switch, from the moment db_core.js is loaded
NextRecovery ==
  \/ SnapRoom /\ \E fault \in RecoveryFaults : DbInit(Undefined, fault)
  \/ SnapRoom /\ \E fault \in RecoveryFaults : DbGet(fault)
  \/ SnapRoom /\ \E forceSnapshot \in BOOLEAN, fault \in RecoveryFaults :
                  DbSafeSave(DbOne, forceSnapshot, FALSE, fault)
  \/ SnapRoom /\ BackupCreateSnapshot(DbOne)
  \/ SnapRoom /\ \E args \in RestoreArgs : BackupRestoreSnapshot(args, "none")
  \/ \E text \in ImportTexts : BackupPreviewImport(text)
  \/ SnapRoom /\ \E text \in ImportTexts, merge \in BOOLEAN, fault \in RecoveryFaults :
                  BackupImportDB(text, merge, fault)
  \/ HoldsDb /\ \E initial_c \in InitialAmounts : CashOpen(initial_c)
  \/ RecoveryEnable("manual")
  \/ RecoveryDisable
  \/ \E v \in ExternalValues : ExternalWrite(v)

SpecRecovery == InitDb /\ [][NextRecovery]_vars

\* C29: previewImport, whatever the text, and importDB with merge=true,
\* whatever the text, leave the canonical key, the temporary key, the
\* snapshot list and the recovery flag as they were, and importDB with
\* merge=true returns ok:false with the 'not supported' message even for a
\* text that is no JSON
C29_PreviewAndMergeImportChangeNothing ==
  [][(\/ last'.op = "backup.previewImport"
      \/ last'.op = "backup.importDB" /\ last'.merge)
       => /\ store' = store
          /\ pm' = pm
          /\ last'.op = "backup.importDB" =>
               ~last'.ok /\ last'.message = MergeNotSupported]_vars

\* importDB with merge=true has returned while the canonical key holds a
\* database, a snapshot exists and recovery mode is on
C29_Witness ==
  /\ last.op = "backup.importDB" /\ last.merge /\ ~last.ok
  /\ last.message = MergeNotSupported
  /\ HoldsDb
  /\ pm.snapshots # <<>>
  /\ pm.recovery.active

\* C30: a step taken while the recovery flag is active leaves it active,
\* whether it is init, get, safeSave (failing or not), an import, a preview,
\* a snapshot, a restore or a cashier operation, unless the step is
\* recovery.disable(), which makes the flag inactive
C30_RecoveryStickyUntilDisabled ==
  [][/\ pm.recovery.active /\ last'.op # "recovery.disable" => pm'.recovery.active
     /\ last'.op = "recovery.disable" => ~pm'.recovery.active]_vars

\* a save has succeeded, the canonical key holds a database again, and the
\* recovery flag raised by the corrupt text is still active
C30_Witness ==
  /\ pm.recovery.active
  /\ pm.recovery.reason = "db_corrompido_json"
  /\ last.op = "db.safeSave" /\ last.ok
  /\ HoldsDb


(***************************************************************************)
(* C31: recovery.status().reason is corrupted_json after init() or get()   *)
(* met a stored value that does not parse and the recovery save went       *)
(* through, and storage_error after a safeSave that failed.                *)
(***************************************************************************)
C31_RecoveryReasonNames ==
  [][/\ \A backupCfg \in BackupCfgs :
          (store = CorruptText /\ DbInit(backupCfg, "none"))
            => pm'.recovery = [active |-> TRUE, reason |-> "corrupted_json"]
     /\ (store = CorruptText /\ DbGet("none"))
          => pm'.recovery = [active |-> TRUE, reason |-> "corrupted_json"]
     /\ (last'.op = "db.safeSave" /\ ~last'.ok)
          => pm'.recovery = [active |-> TRUE, reason |-> "storage_error"]]_vars

(***************************************************************************)
(* The inventory session run with the stock ledger: two products are in    *)
(* stock, X with 3 units and Z with 1.                                     *)
(***************************************************************************)
MaxCountMovs == 3   \* stock movements persisted while inventories are counted

DbCounted ==
  [InitialDB(3) EXCEPT !.estoque = <<[cod |-> CodX, qtd |-> 3], [cod |-> CodZ, qtd |-> 1]>>]

CountedProducts == {Str(<<" ", "X", " ">>), Str(CodZ), Str(<<"Q">>)}
CountedNumbers == {IntVal(3), IntVal(5)}
CountedSubsets == {Null, [codes |-> {CodX}]}
CountedStockTypes == {"saida", "entrada"}

\* computeDiffs() as called from outside
inventoryComputeDiffs(st) ==
  IF ~st.active THEN [ok |-> FALSE, diffs |-> <<>>]
  ELSE [ok |-> TRUE, diffs |-> computeDiffs(st.items)]

InventoryComputeDiffs ==
  /\ last' = [op |-> "inventory.computeDiffs",
              ok |-> inventoryComputeDiffs(inv).ok,
              diffs |-> inventoryComputeDiffs(inv).diffs]
  /\ UNCHANGED <<store, inv, pm, mg, srv, px>>

CountRoom == Len(store.stockMovements) < MaxCountMovs

InitInventory == Installed(dbInit(DbCounted, PmLoaded, Undefined, "none"))

NextInventory ==
  \/ inv.started < MaxInventories /\ \E productCods \in CountedSubsets : InventoryStart(productCods)
  \/ \E productCod \in CountedProducts, countedQty \in CountedNumbers :
       InventorySetCount(productCod, countedQty)
  \/ InventoryComputeDiffs
  \/ CountRoom /\ \E meta \in InventoryMetas : InventoryApplyAdjustments(meta)
  \/ CountRoom /\ \E type \in CountedStockTypes, productCod \in CountedProducts :
                    StockAddMovement(type, productCod, Str(<<"2">>), Undefined)
  \/ CountRoom /\ CancelSale(Str(<<"7">>), TRUE)

SpecInventory == InitInventory /\ [][NextInventory]_vars

\* the positions of the session items that were counted and found to differ
CountedApart(items) ==
  {k \in 1..Len(items) :
     items[k].countedQty # Null /\ items[k].countedQty.h # 2 * items[k].systemQty}

\* the item at the n-th of those positions
NthDiffering(items, n) ==
  items[CHOOSE k \in CountedApart(items) :
          Cardinality({j \in CountedApart(items) : j <= k}) = n]

\* movement mv adjusts item it of the session called id
Adjusts(mv, it, id) ==
  /\ mv.type = "ajuste"
  /\ mv.productCod = it.productCod
  /\ 2 * mv.qtyDelta = it.countedQty.h - 2 * it.systemQty
  /\ mv.meta.kind = "inventory"
  /\ mv.meta.f.inventoryId = id

(***************************************************************************)
(* C32: applyAdjustments on an active inventory appends exactly one        *)
(* movement of type ajuste for every session item that was counted and     *)
(* differs from its captured system quantity, and none for the others,     *)
(* each with qtyDelta = counted - system and meta.inventoryId equal to the *)
(* session id; afterwards the session is inactive, and on an inactive      *)
(* session setCount, computeDiffs and applyAdjustments fail.               *)
(***************************************************************************)
C32_OneAdjustmentPerDifference ==
  [][/\ \A meta \in InventoryMetas :
          (inv.active /\ InventoryApplyAdjustments(meta))
            => /\ last'.ok
               /\ ~inv'.active
               /\ Len(store'.stockMovements)
                    = Len(store.stockMovements) + Cardinality(CountedApart(inv.items))
               /\ \A n \in 1..Cardinality(CountedApart(inv.items)) :
                    Adjusts(store'.stockMovements[Len(store.stockMovements) + n],
                            NthDiffering(inv.items, n), inv.id)
     /\ (~inv.active /\ last'.op \in {"inventory.setCount", "inventory.computeDiffs",
                                      "inventory.applyAdjustments"})
          => ~last'.ok /\ store' = store /\ inv' = inv]_vars

(***************************************************************************)
(* validate.checksum32 applied to the texts typed over a small alphabet    *)
(***************************************************************************)
MaxChecksumLen == 6   \* characters of a text handed to checksum32

ChecksumChars == {"f", "o", "b", "a", "r"}

TypeChar(c) ==
  /\ px.phase = "typed"
  /\ Len(px.text) < MaxChecksumLen
  /\ px' = [phase |-> "typed", text |-> Append(px.text, c)]
  /\ last' = [op |-> "type", ok |-> TRUE]
  /\ UNCHANGED <<store, inv, pm, mg, srv>>

Checksum32 ==
  /\ px.phase = "typed"
  /\ px' = [phase |-> "summed", text |-> px.text, sum |-> checksum32(px.text)]
  /\ last' = [op |-> "validate.checksum32", ok |-> TRUE]
  /\ UNCHANGED <<store, inv, pm, mg, srv>>

InitChecksum ==
  /\ store = Absent
  /\ pm = PmLoaded
  /\ inv = NoInventory
  /\ last = [op |-> "load", ok |-> TRUE]
  /\ mg = NoMerge
  /\ srv = NoServer
  /\ px = [phase |-> "typed", text |-> <<>>]

NextChecksum == (\E c \in ChecksumChars : TypeChar(c)) \/ Checksum32

SpecChecksum == InitChecksum /\ [][NextChecksum]_vars

\* FNV-1a as published, on a 32-bit value held as four bytes, lowest first:
\* the octet is XORed into the lowest byte, then the value is multiplied by
\* the FNV prime 16777619 = 0x01000193 modulo 2^32
FnvBasis == <<197, 157, 28, 129>>     \* 2166136261 = 0x811C9DC5
FnvPrime == <<147, 1, 0, 1>>

\* bitwise exclusive or of two bytes, bit by bit
FnvXor(a, b) ==
  LET bit(x, i) == (x \div (2 ^ i)) % 2
      upTo[i \in 0..8] ==
        IF i = 8 THEN 0 ELSE ((bit(a, i) + bit(b, i)) % 2) * (2 ^ i) + upTo[i + 1]
  IN upTo[0]

\* column k (from 0) of the long multiplication of h by the prime
FnvColumn(h, k) ==
  LET terms[i \in 0..(k + 1)] ==
        IF i > k THEN 0 ELSE h[i + 1] * FnvPrime[k - i + 1] + terms[i + 1]
  IN terms[0]

FnvTimesPrime(h) ==
  LET carry[k \in 0..4] == IF k = 0 THEN 0 ELSE (FnvColumn(h, k - 1) + carry[k - 1]) \div 256
  IN [k \in 1..4 |-> (FnvColumn(h, k - 1) + carry[k - 1]) % 256]

RECURSIVE Fnv1a(_)
Fnv1a(text) ==
  IF text = <<>> THEN FnvBasis
  ELSE FnvTimesPrime([Fnv1a(SubSeq(text, 1, Len(text) - 1))
                        EXCEPT ![1] = FnvXor(@, charCodeAt[text[Len(text)]])])

LowerHex == <<"0", "1", "2", "3", "4", "5", "6", "7", "8", "9", "a", "b", "c", "d", "e", "f">>

\* the eight digits of the value, highest first
FnvHex(h) ==
  [n \in 1..8 |->
     LowerHex[(IF n % 2 = 1 THEN h[4 - ((n - 1) \div 2)] \div 16
               ELSE h[4 - ((n - 1) \div 2)] % 16) + 1]]

(***************************************************************************)
(* C33: checksum32(text) is the 32-bit FNV-1a hash of the text (start      *)
(* 2166136261; for each character in order, XOR its code, then multiply by *)
(* 16777619 modulo 2^32) written as exactly 8 lowercase hexadecimal digits *)
(* with leading zeros, for every text, the empty one included; the         *)
(* published values for "", "a" and "foobar" are among them.               *)
(***************************************************************************)
C33_ChecksumIsFnv1a ==
  px.phase = "summed"
    => /\ px.sum = FnvHex(Fnv1a(px.text))
       /\ Len(px.sum) = 8
       /\ \A n \in 1..8 : \E d \in 1..16 : px.sum[n] = LowerHex[d]
       /\ px.text = <<>> => px.sum = <<"8", "1", "1", "c", "9", "d", "c", "5">>
       /\ px.text = <<"a">> => px.sum = <<"e", "4", "0", "c", "2", "9", "2", "c">>
       /\ px.text = <<"f", "o", "o", "b", "a", "r">>
            => px.sum = <<"b", "f", "9", "c", "f", "9", "6", "8">>

\* a text whose hash begins with zeros has been summed, and so has foobar
C33_Witness ==
  /\ px.phase = "summed"
  /\ px.text # <<>>
  /\ px.sum[1] = "0"
  /\ px.sum[2] = "0"
  /\ px.sum = FnvHex(Fnv1a(px.text))

\* the sum of the deltas of the movements from the k-th on recorded for cod
RECURSIVE LedgerBalance(_, _, _)
LedgerBalance(movs, k, cod) ==
  IF k > Len(movs) THEN 0
  ELSE (IF movs[k].productCod = cod THEN movs[k].qtyDelta ELSE 0)
         + LedgerBalance(movs, k + 1, cod)

(***************************************************************************)
(* C34: for every product, whatever sequence of addMovement calls is made, *)
(* the change of the product's persisted qtd equals the sum of the         *)
(* qtyDelta of the movements recorded for it: each call changes the        *)
(* quantity by exactly the deltas it appends to the ledger.                *)
(***************************************************************************)
C34_QuantityFollowsLedger ==
  [][last'.op = "stock.addMovement"
       => \A i \in 1..Len(store.estoque) :
            store'.estoque[i].qtd - store.estoque[i].qtd
              = LedgerBalance(store'.stockMovements, Len(store.stockMovements) + 1,
                              store.estoque[i].cod)]_vars

\* the quantity counted for the product with that code in the running
\* session, -1 when it has none
CountedFor(st, cod) ==
  IF \E k \in 1..Len(st.items) : st.items[k].productCod = cod /\ st.items[k].countedQty # Null
    THEN (st.items[CHOOSE k \in 1..Len(st.items) :
                     st.items[k].productCod = cod /\ st.items[k].countedQty # Null].countedQty.h) \div 2
    ELSE -1

(***************************************************************************)
(* C35: once an inventory is started and a count c >= 0 is recorded for a  *)
(* product, an applyAdjustments that returns ok:true leaves the persisted  *)
(* quantity of that product equal to c, whatever stock movements were made *)
(* on the product between start and applyAdjustments.                      *)
(***************************************************************************)
C35_CountedQuantityPersisted ==
  [][\A meta \in InventoryMetas :
       (inv.active /\ InventoryApplyAdjustments(meta) /\ last'.ok)
         => \A i \in 1..Len(store'.estoque) :
              CountedFor(inv, store'.estoque[i].cod) >= 0
                => store'.estoque[i].qtd = CountedFor(inv, store'.estoque[i].cod)]_vars

\* the properties of a database other than the timestamps a merge sets
DataOf(db) == [k \in DOMAIN db.f \ {"meta", "_meta"} |-> db.f[k]]

(***************************************************************************)
(* C36: merging is idempotent with the default options: once               *)
(* mergeFromServer has merged a remote database into the local one,        *)
(* repeating it against the same remote database yields the same data,     *)
(* stock quantities included (timestamps apart).                           *)
(***************************************************************************)
C36_RepeatedMergeChangesNothing ==
  [][\A remote \in Remotes \ {LoadFailed} :
       (MergeFromServer(remote, NoOptions) /\ last'.ok)
         => DataOf(mergeFromServer(store', pm', mg'.fb, remote, NoOptions).db) = DataOf(mg'.db)]_vars

(***************************************************************************)
(* C37: whenever safeSave returns ok:false the value stored under the      *)
(* canonical key is the one stored before the call, whichever step failed  *)
(* (the write of the temporary key, the copy to the canonical key, the     *)
(* creation of the snapshot).                                              *)
(***************************************************************************)
C37_FailedSaveLeavesStoredValue ==
  [][(last'.op = "db.safeSave" /\ ~last'.ok) => store' = store]_vars

(***************************************************************************)
(* C38: whenever importDB returns ok:true the database it imported has     *)
(* been written to the canonical key, and when the safeSave under it fails *)
(* it returns ok:false (the same is claimed of the ledger operations and   *)
(* of restoreSnapshot, which call safeSave the same way).                  *)
(***************************************************************************)
C38_OkMeansWritten ==
  [][\A text \in ImportTexts, fault \in RecoveryFaults :
       BackupImportDB(text, FALSE, fault)
         => /\ fault # "none" => ~last'.ok
            /\ last'.ok => store' = importDB(store, pm, text, FALSE, "none").store]_vars

(***************************************************************************)
(* The schema version on the way to the canonical key: init() on a stored  *)
(* value that parses, and importDB on a backup that parses, migrate the    *)
(* database when Number(db.schemaVersion || 0) is not SCHEMA_VERSION,      *)
(* normalise it and save it.                                               *)
(***************************************************************************)
\* Number(text) for a decimal numeral with "." as its separator
numberOfText(s) ==
  IF \E i \in 1..Len(s) : s[i] = "," THEN NaN
  ELSE ParseNumber([i \in 1..Len(Trim(s)) |-> IF Trim(s)[i] = "." THEN "," ELSE Trim(s)[i]])

\* Number(x)
toNumber(x) ==
  CASE x.t = "number" -> x
    [] x.t = "string" -> numberOfText(x.s)
    [] x.t = "boolean" -> IF x.b THEN IntVal(1) ELSE IntVal(0)
    [] x.t = "null" -> IntVal(0)
    [] x.t = "array" -> IF x.a = <<>> THEN IntVal(0)
                        ELSE IF Len(x.a) = 1 THEN numberOfText(asStr(x.a[1]))
                        ELSE NaN
    [] OTHER -> NaN

\* `Number(db.schemaVersion || 0)`
versionOf(db) ==
  IF Falsy(Field(propsOf(db), "schemaVersion")) THEN IntVal(0)
  ELSE toNumber(Field(propsOf(db), "schemaVersion"))

\* schema.migrate(db, fromV, SCHEMA_VERSION, report) for any number fromV:
\* `fromVersion || 0` makes NaN zero; from a fraction the loop never meets
\* next === 1 and changes nothing
migrateFrom(db, fromV) ==
  IF fromV = NaN THEN migrate(db, 0, SCHEMA_VERSION, <<>>).db
  ELSE IF fromV.h % 2 = 0 THEN migrate(db, fromV.h \div 2, SCHEMA_VERSION, <<>>).db
  ELSE IF Falsy(db) THEN Obj(<<>>)
  ELSE db

\* `if (fromV !== schema.SCHEMA_VERSION) db = schema.migrate(...)`
upgraded(db, fromV) == IF fromV = IntVal(SCHEMA_VERSION) THEN db ELSE migrateFrom(db, fromV)

\* the database init() saves (with skipNormalize) for the parsed value db
initSaved(db) == normalizeValue(upgraded(db, versionOf(db))).db

\* the database importDB saves for the db of the parsed backup: safeSave
\* normalises it once more
importSaved(db) == normalizeValue(normalizeValue(upgraded(db, versionOf(db))).db).db

\* the schemaVersion a stored database carries, if any
CarriedVersions ==
  {Undefined, Null, IntVal(0), IntVal(1), IntVal(2), IntVal(-1), Num(1), Num(3),
   Str(<<"1">>), Str(<<"2">>), Str(<<"x">>), Str(<<>>), Bool(TRUE)}

\* the rest of the stored database
CarriedBodies ==
  {<<>>,
   [estoque |-> Arr(<<ProdOk>>)],
   [estoque |-> Arr(<<ProdNeg>>), meta |-> Obj([createdAt |-> T0, updatedAt |-> T0])],
   [vendas |-> Null, caixa |-> Obj([aberto |-> Bool(TRUE)])]}

Carrying(version, body) ==
  IF version = Undefined THEN Obj(body)
  ELSE Obj([k \in DOMAIN body \cup {"schemaVersion"} |->
              IF k = "schemaVersion" THEN version ELSE body[k]])

\* init() on the stored database px.db
SchemaInit ==
  /\ px.phase = "stored"
  /\ store' = initSaved(px.db)
  /\ px' = [phase |-> "inited", db |-> px.db]
  /\ last' = [op |-> "db.init", ok |-> TRUE]
  /\ UNCHANGED <<inv, pm, mg, srv>>

\* importDB of a backup of the database px.db
SchemaImport ==
  /\ px.phase = "stored"
  /\ store' = importSaved(px.db)
  /\ px' = [phase |-> "imported", db |-> px.db]
  /\ last' = [op |-> "backup.importDB", ok |-> TRUE]
  /\ UNCHANGED <<inv, pm, mg, srv>>

InitSchema ==
  /\ pm = PmLoaded
  /\ inv = NoInventory
  /\ last = [op |-> "load", ok |-> TRUE]
  /\ mg = NoMerge
  /\ srv = NoServer
  /\ \E version \in CarriedVersions, body \in CarriedBodies :
       /\ store = Carrying(version, body)
       /\ px = [phase |-> "stored", db |-> Carrying(version, body)]

NextSchema == SchemaInit \/ SchemaImport

SpecSchema == InitSchema /\ [][NextSchema]_vars

(***************************************************************************)
(* C39: after init() on a stored value that parses, and after an importDB  *)
(* that succeeds, the persisted database has schemaVersion equal to        *)
(* SCHEMA_VERSION, whatever schemaVersion the input carried: none, a lower *)
(* one, a higher one or one that is not a number.                          *)
(***************************************************************************)
C39_PersistedVersionIsCurrent ==
  px.phase \in {"inited", "imported"} => store.f.schemaVersion = IntVal(SCHEMA_VERSION)

(***************************************************************************)
(* backup.createSnapshot step by step: a safeSave that creates a snapshot  *)
(* enters the loop `while (snaps.length > maxSnapshots) snaps.pop()`, each *)
(* iteration is a step, and the call returns once the list is saved.       *)
(* init() accepts any maxSnapshots its backup option carries.              *)
(***************************************************************************)
SnapshotCaps == {-1, 0, 1, 2}

SnapshotCfgs == {Undefined} \cup {[maxSnapshots |-> m] : m \in SnapshotCaps}

\* snaps.pop(): an empty array stays empty
pop(snaps) == IF snaps = <<>> THEN snaps ELSE SubSeq(snaps, 1, Len(snaps) - 1)

\* createSnapshot up to its loop: the list is loaded and the new snapshot
\* put in front; turn is the parity of the iterations made
unshifted(p, db, op) ==
  [phase |-> "createSnapshot",
   op |-> op,
   turn |-> 0,
   snaps |-> <<[id |-> generateId("snap", p.snapSeq + 1), at |-> p.now, data |-> db]>>
               \o p.snapshots]

\* safeSave of the normalised database fixed, up to the loop of the snapshot
\* it creates, or to its return when no snapshot is due
Saving(fixed, p, due, op) ==
  /\ store' = fixed
  /\ IF due
       THEN /\ px' = unshifted(p, fixed, op)
            /\ pm' = [p EXCEPT !.tmp = FALSE, !.snapSeq = @ + 1]
            /\ last' = [op |-> "backup.createSnapshot", ok |-> TRUE]
       ELSE /\ px' = px
            /\ pm' = [p EXCEPT !.tmp = FALSE]
            /\ last' = [op |-> op, ok |-> TRUE, snapshotCreated |-> FALSE]
  /\ UNCHANGED <<inv, mg, srv>>

\* the configuration init() leaves in _cfg.backup
configured(p, backupCfg) ==
  IF backupCfg = Undefined THEN p ELSE [p EXCEPT !.maxSnapshots = backupCfg.maxSnapshots]

\* init({backup}) up to the loop of the snapshot its save creates
InitSaving(backupCfg) ==
  /\ px.phase = "idle"
  /\ IF store = CorruptText
       THEN Saving(defaultDB, setRecovery(configured(pm, backupCfg), "db_corrompido_json"),
                   TRUE, "db.init")
       ELSE Saving(IF NoRaw(store) THEN defaultDB ELSE normalizeDB(store),
                   configured(pm, backupCfg),
                   snapshotDue(pm, FALSE), "db.init")

\* safeSave(db, {forceSnapshot}) up to the loop of the snapshot it creates
SafeSaving(db, forceSnapshot) ==
  /\ px.phase = "idle"
  /\ Saving(normalizeDB(db), pm, snapshotDue(pm, forceSnapshot), "db.safeSave")

\* one iteration of the loop
SnapshotPop ==
  /\ px.phase = "createSnapshot"
  /\ Len(px.snaps) > pm.maxSnapshots
  /\ px' = [px EXCEPT !.snaps = pop(@), !.turn = 1 - @]
  /\ UNCHANGED <<store, inv, last, pm, mg, srv>>

\* the loop is left: saveSnapshots, and the save returns
SnapshotSaved ==
  /\ px.phase = "createSnapshot"
  /\ ~(Len(px.snaps) > pm.maxSnapshots)
  /\ pm' = [pm EXCEPT !.snapshots = px.snaps, !.lastSnapshotAt = pm.now]
  /\ px' = NoTrial
  /\ last' = [op |-> px.op, ok |-> TRUE, snapshotCreated |-> TRUE]
  /\ UNCHANGED <<store, inv, mg, srv>>

SnapshotTick(d) == px.phase = "idle" /\ pm.now + d <= MaxNow /\ Tick(d)

NextSnapshot ==
  \/ SnapRoom /\ \E backupCfg \in SnapshotCfgs : InitSaving(backupCfg)
  \/ SnapRoom /\ \E in \in SaveInputs, forceSnapshot \in BOOLEAN : SafeSaving(in.db, forceSnapshot)
  \/ SnapshotPop
  \/ SnapshotSaved
  \/ \E d \in Ticks : SnapshotTick(d)

\* the calls are synchronous: a loop that can iterate does, and a call that
\* can return does
SpecSnapshot ==
  InitDb /\ [][NextSnapshot]_vars /\ WF_vars(SnapshotPop) /\ WF_vars(SnapshotSaved)

(***************************************************************************)
(* C40: createSnapshot terminates for every integer maxSnapshots that the  *)
(* backup option of init accepts (positive, zero or negative) and every    *)
(* stored snapshot list: a safeSave that has entered createSnapshot        *)
(* returns.                                                                *)
(***************************************************************************)
C40_CreateSnapshotTerminates == (px.phase = "createSnapshot") ~> (px.phase = "idle")

====
